---- MODULE Spec2Model ----
(***************************************************************************)
(* Chronotab: scheduling, timer registration and missed-occurrence         *)
(* reconciliation (src/utils/scheduler.js and src/background.js).          *)
(*                                                                         *)
(* Instants are counted in minutes since the epoch (the code counts        *)
(* milliseconds; every instant the code computes is a whole minute         *)
(* because setHours(h, m, 0, 0) zeroes seconds and milliseconds).  Local   *)
(* time is a fixed-offset zone with offset 0, so 1970-01-01 (a Thursday)   *)
(* starts at instant 0.  Strings are sequences of one-character strings.   *)
(* null and undefined are both the value Null, except for a time string    *)
(* that is missing, which is the value Undefined.                          *)
(***************************************************************************)
EXTENDS Integers, Sequences, FiniteSets, TLC

VARIABLES
    now,          \* Date.now()
    schedules,    \* chrome.storage.sync "schedules": array of Schedule
    missedData,   \* chrome.storage.local "chronotab_missed_alarms_data"
    clearedLog,   \* chrome.storage.local "chronotab_cleared_missed_alarms"
    alarms,       \* chrome.alarms: set of [name, when, period]
    opened,       \* URLs passed to chrome.tabs.create by the last reaction
    notified,     \* entries of the grouped notification of the last pass
    op,           \* the last reaction that ran, with its arguments
    calcTime,     \* calculator harness: the time string
    calcDays,     \* calculator harness: the daysOfWeek array
    calcFrom,     \* calculator harness: the reference instant
    calcResult,   \* calculator harness: what the calculator returned
    missedSchedules,      \* MissedSchedulesPage: whether it is mounted and
                          \* its missedSchedules state
    missedAlarmsEnabled,  \* chrome.storage.sync
                          \* "chronotab_missed_alarms_enabled"
    registering,          \* the registerAlarms invocations in flight
    checking              \* the checkMissedAlarmsOnStartup invocations in
                          \* flight

vars == <<now, schedules, missedData, clearedLog, alarms, opened, notified,
          op, calcTime, calcDays, calcFrom, calcResult, missedSchedules,
          missedAlarmsEnabled, registering, checking>>

calcVars == <<calcTime, calcDays, calcFrom, calcResult>>

uiVars == <<missedSchedules, missedAlarmsEnabled>>

flightVars == <<registering, checking>>

----------------------------------------------------------------------------
(* Bounds of the model.                                                    *)

\* the clock visits days 0..MaxDay and the thirtieth day
MaxDay == 1
\* with two schedules stored the clock visits 09:01 of days 0..MaxPairDay
MaxPairDay == 1
\* the calculator harness takes its reference instant from days 0..MaxCalcDay
MaxCalcDay == 8

----------------------------------------------------------------------------
(* Values and calendar arithmetic of the JavaScript Date object.           *)

Null == 0 - 1

\* what a call leaves when it ends with an uncaught TypeError instead of a
\* return value
Thrown == 0 - 2

MinutesPerDay == 1440

MinutesPerWeek == 10080

\* falsy in JavaScript: undefined, null and 0
Truthy(x) == x # Null /\ x # 0

\* Date.prototype.setHours(h, m, 0, 0) on the date holding instant t
SetHours(t, h, m) == (t \div MinutesPerDay) * MinutesPerDay + h * 60 + m

\* Date.prototype.setDate(getDate() + k)
AddDays(t, k) == t + k * MinutesPerDay

\* Date.prototype.getDay(): 0 = Sunday .. 6 = Saturday
GetDay(t) == (4 + (t \div MinutesPerDay)) % 7

Min(a, b) == IF a <= b THEN a ELSE b

----------------------------------------------------------------------------
(* Strings.                                                                *)

Digits == <<"0", "1", "2", "3", "4", "5", "6", "7", "8", "9">>

IsDigit(c) == \E i \in 1..10 : Digits[i] = c

DigitVal(c) == (CHOOSE i \in 1..10 : Digits[i] = c) - 1

\* String.prototype.includes for a one-character needle
Includes(s, c) == \E i \in 1..Len(s) : s[i] = c

\* indices of the separator c in s, in increasing order, as a sequence
RECURSIVE SepPositions(_, _, _)
SepPositions(s, c, i) ==
    IF i > Len(s) THEN <<>>
    ELSE IF s[i] = c THEN <<i>> \o SepPositions(s, c, i + 1)
    ELSE SepPositions(s, c, i + 1)

\* the parts of s between the separators at the indices pos
SplitAt(s, pos) ==
    [k \in 1..(Len(pos) + 1) |->
        SubSeq(s,
               IF k = 1 THEN 1 ELSE pos[k - 1] + 1,
               IF k = Len(pos) + 1 THEN Len(s) ELSE pos[k] - 1)]

\* String.prototype.split(c): the array of parts
Split(s, c) == SplitAt(s, SepPositions(s, c, 1))

\* String.prototype.substring(0, n)
Substring0(s, n) == SubSeq(s, 1, Min(n, Len(s)))

\* number of leading characters of s, from index i, that are digits
RECURSIVE DigitRun(_, _)
DigitRun(s, i) ==
    IF i > Len(s) \/ ~IsDigit(s[i]) THEN 0 ELSE 1 + DigitRun(s, i + 1)

RECURSIVE DigitsValue(_, _, _)
DigitsValue(s, i, n) ==
    IF n = 0 THEN 0
    ELSE DigitsValue(s, i, n - 1) * 10 + DigitVal(s[i + n - 1])

RECURSIVE SkipSpaces(_, _)
SkipSpaces(s, i) ==
    IF i <= Len(s) /\ s[i] = " " THEN SkipSpaces(s, i + 1) ELSE i

NaN == [nan |-> TRUE, val |-> 0]

\* a time argument that is undefined (the property is missing)
Undefined == <<"undefined">>

\* parseInt once the n digits from index i are found; NaN when n = 0
ParseDigits(s, i, n, neg) ==
    IF n = 0 THEN NaN
    ELSE [nan |-> FALSE,
          val |-> IF neg THEN 0 - DigitsValue(s, i, n)
                  ELSE DigitsValue(s, i, n)]

\* parseInt from the first non-blank index i0: an optional sign, then the
\* longest run of digits
ParseSigned(s, i0) ==
    IF i0 <= Len(s) /\ (s[i0] = "-" \/ s[i0] = "+")
    THEN ParseDigits(s, i0 + 1, DigitRun(s, i0 + 1), s[i0] = "-")
    ELSE ParseDigits(s, i0, DigitRun(s, i0), FALSE)

\* parseInt(s, 10)
parseInt(s) == ParseSigned(s, SkipSpaces(s, 1))

NoTime == [ok |-> FALSE, h |-> 0, m |-> 0, threw |-> FALSE]

\* timeToParse.split(":") on undefined: TypeError
SplitThrew == [ok |-> FALSE, h |-> 0, m |-> 0, threw |-> TRUE]

\* the range test on the parsed hour and minute
ValidHM(h, m) ==
    IF h.nan \/ m.nan \/ h.val < 0 \/ h.val > 23 \/ m.val < 0 \/ m.val > 59
    THEN NoTime
    ELSE [ok |-> TRUE, h |-> h.val, m |-> m.val, threw |-> FALSE]

\* const [hStr, mStr] = timeToParse.split(":"): mStr is undefined, and
\* parseInt(undefined) is NaN, when there is no ":"
ParseHM(hm) ==
    ValidHM(parseInt(hm[1]), IF Len(hm) >= 2 THEN parseInt(hm[2]) ELSE NaN)

\* the branch taken when timeStr includes a T, parts = timeStr.split("T")
ParseIsoParts(parts) ==
    IF Len(parts) > 1 /\ Includes(parts[2], ":")
    THEN ParseHM(Split(Substring0(parts[2], 5), ":"))
    ELSE NoTime

\* the parsing prologue shared by the four calculator functions:
\* extract HH:MM from "HH:MM" or from the part after the T, then validate
ParseTimeString(timeStr) ==
    IF timeStr = Undefined THEN SplitThrew
    ELSE IF Len(timeStr) > 0 /\ Includes(timeStr, "T")
    THEN ParseIsoParts(Split(timeStr, "T"))
    ELSE ParseHM(Split(timeStr, ":"))

\* <input type="date"> value 1970-01-0d
DateOf(d) == <<"1", "9", "7", "0", "-", "0", "1", "-", "0", Digits[d + 1]>>

\* the time string the editor stores for a 09:00 schedule starting on day 1
SavedTime == DateOf(2) \o <<"T", "0", "9", ":", "0", "0">>

\* the prologue's result for the stored time string, computed once
SavedTimeParsed == ParseTimeString(SavedTime)

ParseTime(timeStr) ==
    IF timeStr = SavedTime THEN SavedTimeParsed
    ELSE ParseTimeString(timeStr)

----------------------------------------------------------------------------
(* Occurrence calculators.                                                 *)

\* variant: a candidate equal to fromTimestamp is accepted
DailyFromCandidateNotStrict(next, fromTimestamp, p) ==
    IF next < fromTimestamp
    THEN SetHours(AddDays(next, 1), p.h, p.m)
    ELSE next

\* getNextOccurrenceFrom after next.setHours(h, m, 0, 0): advance one day
\* when the candidate is not after fromTimestamp
DailyFromCandidate(next, fromTimestamp, p) ==
    IF next <= fromTimestamp
    THEN SetHours(AddDays(next, 1), p.h, p.m)
    ELSE next

\* getNextOccurrenceFrom after the parsing prologue gave p
DailyFromParsed(p, fromTimestamp) ==
    IF p.threw THEN Thrown
    ELSE IF ~p.ok THEN Null
    ELSE DailyFromCandidate(SetHours(fromTimestamp, p.h, p.m),
                            fromTimestamp, p)

\* background.js getNextOccurrenceFrom(timeStr, fromTimestamp)
getNextOccurrenceFrom(timeStr, fromTimestamp) ==
    DailyFromParsed(ParseTime(timeStr), fromTimestamp)

\* variant: a weekday candidate equal to fromTimestamp is accepted
WeeklyCandidateFromNotStrict(h, m, dayOfWeek, fromTimestamp) ==
    LET currentDayOfBase == GetDay(fromTimestamp)
        daysToAdd == (dayOfWeek - currentDayOfBase + 7) % 7
        candidate == SetHours(AddDays(fromTimestamp, daysToAdd), h, m)
    IN  IF candidate < fromTimestamp THEN AddDays(candidate, 7)
        ELSE candidate

\* the candidate of one weekday in getNextWeeklyOccurrenceFrom's forEach
WeeklyCandidateFrom(h, m, dayOfWeek, fromTimestamp) ==
    LET currentDayOfBase == GetDay(fromTimestamp)
        daysToAdd == (dayOfWeek - currentDayOfBase + 7) % 7
        candidate == SetHours(AddDays(fromTimestamp, daysToAdd), h, m)
    IN  IF candidate <= fromTimestamp THEN AddDays(candidate, 7)
        ELSE candidate

\* variant: the candidate of the last weekday looked at wins
EarlierOfLast(c, earliestNext) == c

\* earliestNext after one candidate was compared with it
EarlierOf(c, earliestNext) ==
    IF earliestNext = Null \/ c < earliestNext THEN c ELSE earliestNext

RECURSIVE EarliestFrom(_, _, _, _, _, _)
EarliestFrom(h, m, daysOfWeek, i, fromTimestamp, earliestNext) ==
    IF i > Len(daysOfWeek) THEN earliestNext
    ELSE EarliestFrom(h, m, daysOfWeek, i + 1, fromTimestamp,
             EarlierOf(WeeklyCandidateFrom(h, m, daysOfWeek[i],
                                           fromTimestamp),
                       earliestNext))

\* getNextWeeklyOccurrenceFrom after the parsing prologue gave p;
\* earliestNext = Infinity is Null here
WeeklyFromParsed(p, daysOfWeek, fromTimestamp) ==
    IF p.threw THEN Thrown
    ELSE IF ~p.ok THEN Null
    ELSE EarliestFrom(p.h, p.m, daysOfWeek, 1, fromTimestamp, Null)

\* background.js getNextWeeklyOccurrenceFrom(timeStr, daysOfWeek, from)
getNextWeeklyOccurrenceFrom(timeStr, daysOfWeek, fromTimestamp) ==
    WeeklyFromParsed(ParseTime(timeStr), daysOfWeek, fromTimestamp)

\* variant: a candidate equal to the current instant is accepted
DailyCandidateNotStrict(next, nowT) ==
    IF next < nowT THEN AddDays(next, 1) ELSE next

\* getNextOccurrence after next.setHours(h, m, 0, 0)
DailyCandidate(next, nowT) ==
    IF next <= nowT THEN AddDays(next, 1) ELSE next

\* getNextOccurrence after the parsing prologue gave p
DailyParsed(p, nowT) ==
    IF p.threw THEN Thrown
    ELSE IF ~p.ok THEN Null
    ELSE DailyCandidate(SetHours(nowT, p.h, p.m), nowT)

\* scheduler.js getNextOccurrence(timeStr), with new Date() = nowT
getNextOccurrence(timeStr, nowT) == DailyParsed(ParseTime(timeStr), nowT)

\* getNextWeeklyOccurrence after the parsing prologue gave p
WeeklyParsed(p, dayOfWeek, nowT) ==
    LET next0      == SetHours(nowT, p.h, p.m)
        currentDay == GetDay(nowT)
        d0         == (dayOfWeek - currentDay + 7) % 7
        daysToAdd  == IF d0 = 0 /\ next0 <= nowT THEN 7 ELSE d0
        next1      == SetHours(AddDays(nowT, daysToAdd), p.h, p.m)
    IN  IF p.threw THEN Thrown
        ELSE IF ~p.ok THEN Null
        ELSE IF next1 <= nowT THEN SetHours(AddDays(next1, 7), p.h, p.m)
        ELSE next1

\* scheduler.js getNextWeeklyOccurrence(timeStr, dayOfWeek), new Date() = nowT
getNextWeeklyOccurrence(timeStr, dayOfWeek, nowT) ==
    WeeklyParsed(ParseTime(timeStr), dayOfWeek, nowT)

----------------------------------------------------------------------------
(* Inputs of the model.                                                    *)

\* crypto.randomUUID() values: equal length, so none is a prefix of another
Ids == { <<"a">>, <<"b">> }

\* the URL fields of the form when the schedule id is saved
UrlsOf(id) == IF id = <<"a">> THEN <<"u1", "u2">> ELSE <<"u3">>

\* weekday buttons pressed in the editor (Mon = 1 .. Sun = 7)
DowChoices == { <<5, 6>> }

\* the instants the clock visits: just before, at and just after 09:00 of
\* day 0, just after 09:00 of the later days, and the two instants around
\* thirty days after 09:01 of day 0
ClockInstants ==
    {539, 540, 541}
        \cup { d * MinutesPerDay + 541 : d \in 1..MaxDay }
        \cup { 30 * MinutesPerDay + 540, 30 * MinutesPerDay + 541 }

----------------------------------------------------------------------------
(* Array helpers.                                                          *)

Range(f) == { f[i] : i \in DOMAIN f }

\* Array.prototype.findIndex by id; 0 stands for -1
FindIndex(seq, id) ==
    IF \E i \in 1..Len(seq) : seq[i].id = id
    THEN CHOOSE i \in 1..Len(seq) :
            seq[i].id = id /\ \A j \in 1..(i - 1) : seq[j].id # id
    ELSE 0

\* variant: every schedule id is taken as a prefix of the alarm name
StartsWithAnything(s, prefix) == TRUE

\* String.prototype.startsWith
StartsWith(s, prefix) ==
    Len(prefix) <= Len(s) /\ SubSeq(s, 1, Len(prefix)) = prefix

SameKey(e, id, t) == e.scheduleId = id /\ e.missedRunTime = t

KeysOf(list) == { <<list[i].scheduleId, list[i].missedRunTime>> :
                    i \in 1..Len(list) }

Op(name, id, t, ok) == [name |-> name, id |-> id, t |-> t, ok |-> ok]

NoId == <<>>

Present(list) == [present |-> TRUE, list |-> list]

Absent == [present |-> FALSE, list |-> <<>>]

----------------------------------------------------------------------------
(* Timer Registrar: scheduler.js registerAlarms.                           *)

\* calculatedWhen = when, or deleted when getNextOccurrence gave nothing
SetCalculatedWhen(schedule, when) ==
    [schedule EXCEPT !.calculatedWhen = IF Truthy(when) THEN when ELSE Null]

\* variant: a once schedule that carries calculatedWhen keeps it
ProcessScheduleOnceKept(schedule, nowT) ==
    IF schedule.repeat = "once" /\ Truthy(schedule.calculatedWhen)
    THEN schedule
    ELSE IF schedule.repeat = "once"
    THEN SetCalculatedWhen(schedule, getNextOccurrence(schedule.time, nowT))
    ELSE [schedule EXCEPT !.calculatedWhen = Null]

\* the map() callback of registerAlarms: recompute or remove calculatedWhen
ProcessSchedule(schedule, nowT) ==
    IF schedule.repeat = "once"
    THEN SetCalculatedWhen(schedule, getNextOccurrence(schedule.time, nowT))
    ELSE [schedule EXCEPT !.calculatedWhen = Null]

SchedulesToProcess(orig, nowT) ==
    [i \in 1..Len(orig) |-> ProcessSchedule(orig[i], nowT)]

\* chrome.alarms.create: an alarm of the same name is replaced
CreateAlarm(set, name, when, period) ==
    { a \in set : a.name # name }
        \cup { [name |-> name, when |-> when, period |-> period] }

\* if (when) chrome.alarms.create(name, { when, periodInMinutes })
CreateIfWhen(set, name, when, period) ==
    IF Truthy(when) THEN CreateAlarm(set, name, when, period) ELSE set

\* every weekday's alarm created under the schedule's id alone
RECURSIVE WeeklyAlarmsOneName(_, _, _, _)
WeeklyAlarmsOneName(set, schedule, i, nowT) ==
    IF i > Len(schedule.dayOfWeek) THEN set
    ELSE WeeklyAlarmsOneName(
             CreateIfWhen(set, schedule.id,
                 getNextWeeklyOccurrence(schedule.time,
                                         schedule.dayOfWeek[i], nowT),
                 MinutesPerWeek),
             schedule, i + 1, nowT)

\* schedule.dayOfWeek.forEach of registerAlarms: one alarm `${id}-${dow}`
\* per weekday, every 10080 minutes
RECURSIVE WeeklyAlarms(_, _, _, _)
WeeklyAlarms(set, schedule, i, nowT) ==
    IF i > Len(schedule.dayOfWeek) THEN set
    ELSE WeeklyAlarms(
             CreateIfWhen(set,
                 schedule.id \o <<"-", Digits[schedule.dayOfWeek[i] + 1]>>,
                 getNextWeeklyOccurrence(schedule.time,
                                         schedule.dayOfWeek[i], nowT),
                 MinutesPerWeek),
             schedule, i + 1, nowT)

\* the forEach callback of registerAlarms that creates the timers of one
\* schedule
AlarmsOfSchedule(set, schedule, nowT) ==
    IF schedule.repeat = "once"
    THEN IF Truthy(schedule.calculatedWhen) /\ schedule.calculatedWhen > nowT
            /\ (~Truthy(schedule.lastRun)
                \/ schedule.lastRun < schedule.calculatedWhen)
         THEN CreateAlarm(set, schedule.id, schedule.calculatedWhen, 0)
         ELSE set
    ELSE IF schedule.repeat = "daily"
    THEN CreateIfWhen(set, schedule.id,
                      getNextOccurrence(schedule.time, nowT), MinutesPerDay)
    ELSE IF schedule.repeat = "weekly" /\ Len(schedule.dayOfWeek) > 0
    THEN WeeklyAlarms(set, schedule, 1, nowT)
    ELSE set

RECURSIVE AlarmsOfAll(_, _, _, _)
AlarmsOfAll(set, processed, i, nowT) ==
    IF i > Len(processed) THEN set
    ELSE AlarmsOfAll(AlarmsOfSchedule(set, processed[i], nowT),
                     processed, i + 1, nowT)

\* variant: the timers are created from the array as it was read, not from
\* the array with calculatedWhen recomputed
RegisterFromOriginal(orig, processed, nowT) ==
    [alarms    |-> AlarmsOfAll({}, orig, 1, nowT),
     schedules |-> IF \E i \in 1..Len(orig) :
                        processed[i].calculatedWhen # orig[i].calculatedWhen
                   THEN processed ELSE orig]

\* registerAlarms after the map(): the timer set after clearAll and the
\* creations, and the Schedule set, written back only when some
\* calculatedWhen changed (hasChangesToPersist)
RegisterProcessed(orig, processed, nowT) ==
    [alarms    |-> AlarmsOfAll({}, processed, 1, nowT),
     schedules |-> IF \E i \in 1..Len(orig) :
                        processed[i].calculatedWhen # orig[i].calculatedWhen
                   THEN processed ELSE orig]

\* what registerAlarms leaves behind when it reads the array orig at nowT
RegisterResult(orig, nowT) ==
    RegisterProcessed(orig, SchedulesToProcess(orig, nowT), nowT)

\* chrome.storage.onChanged listener of background.js: a reaction that
\* stored a changed "schedules" array is followed by registerAlarms, which
\* runs before any other reaction here
AfterStore(stored, nowT) ==
    IF stored = schedules
    THEN [alarms |-> alarms, schedules |-> schedules]
    ELSE RegisterResult(stored, nowT)

\* the Schedule set and the timer set a reaction leaves behind
StoreSchedules(r) ==
    /\ schedules' = r.schedules
    /\ alarms' = r.alarms

\* registerAlarms called on its own (onInstalled, import); op.t is 1 when
\* the reaction before it was registerAlarms too
RegisterAlarms ==
    /\ StoreSchedules(RegisterResult(schedules, now))
    /\ opened' = <<>>
    /\ op' = Op("registerAlarms", NoId,
                IF op.name = "registerAlarms" THEN 1 ELSE 0, TRUE)
    /\ UNCHANGED <<now, missedData, clearedLog, notified, calcVars, uiVars, flightVars>>

----------------------------------------------------------------------------
(* Missed-Occurrence Reconciler: background.js checkMissedAlarmsOnStartup. *)

ThirtyDays == 30 * MinutesPerDay

\* variant: the retention window is a day short
pruneAfterTwentyNineDays(clearedList, nowT) ==
    LET Keep(entry) == (nowT - entry.clearedAt) < ThirtyDays - MinutesPerDay
    IN  SelectSeq(clearedList, Keep)

\* variant: nothing is pruned
pruneNothing(clearedList, nowT) == clearedList

\* background.js pruneClearedMissedAlarms, with Date.now() = nowT
pruneClearedMissedAlarms(clearedList, nowT) ==
    LET Keep(entry) == (nowT - entry.clearedAt) < ThirtyDays
    IN  SelectSeq(clearedList, Keep)

RECURSIVE MissedWalk(_, _, _, _)

\* variant: the first missed run time found is kept, later ones do not
\* supersede it
WalkStepFirst(schedule, calculatedNext, latest, nowT) ==
    IF Truthy(calculatedNext) /\ calculatedNext < nowT
    THEN MissedWalk(schedule, calculatedNext,
             IF latest = Null THEN calculatedNext ELSE latest,
             nowT)
    ELSE latest

\* one turn of the while loop once calculatedNext is computed
WalkStep(schedule, calculatedNext, latest, nowT) ==
    IF Truthy(calculatedNext) /\ calculatedNext < nowT
    THEN MissedWalk(schedule, calculatedNext,
             IF ~Truthy(schedule.lastRun)
                \/ schedule.lastRun < calculatedNext
             THEN calculatedNext ELSE latest,
             nowT)
    ELSE latest

\* the while loop of the daily/weekly branch: the latest missed run time of
\* the schedule, or Null
MissedWalk(schedule, potentialNextRunTime, latest, nowT) ==
    IF ~(potentialNextRunTime < nowT) THEN latest
    ELSE IF schedule.repeat = "daily"
    THEN WalkStep(schedule,
             getNextOccurrenceFrom(schedule.time, potentialNextRunTime),
             latest, nowT)
    ELSE IF schedule.repeat = "weekly" /\ Len(schedule.dayOfWeek) > 0
    THEN WalkStep(schedule,
             getNextWeeklyOccurrenceFrom(schedule.time, schedule.dayOfWeek,
                                         potentialNextRunTime),
             latest, nowT)
    ELSE latest

\* the entry pushed for a recurring schedule when the walk recorded a time
MissedEntry(schedule, latest) ==
    IF Truthy(latest)
    THEN << [scheduleId |-> schedule.id, missedRunTime |-> latest] >>
    ELSE <<>>

\* variant: a once schedule whose calculatedWhen is the current instant is
\* taken as missed too
MissedOfScheduleAtNow(schedule, nowT) ==
    IF schedule.repeat = "once"
    THEN IF Truthy(schedule.calculatedWhen)
            /\ schedule.calculatedWhen <= nowT
            /\ (~Truthy(schedule.lastRun)
                \/ schedule.lastRun < schedule.calculatedWhen)
         THEN << [scheduleId |-> schedule.id,
                  missedRunTime |-> schedule.calculatedWhen] >>
         ELSE <<>>
    ELSE MissedEntry(schedule,
             MissedWalk(schedule,
                 IF Truthy(schedule.lastRun) THEN schedule.lastRun ELSE 0,
                 Null, nowT))

\* the body of the for loop over the schedules: the entries one schedule
\* adds to missedAlarmsAccumulator
MissedOfSchedule(schedule, nowT) ==
    IF schedule.repeat = "once"
    THEN IF Truthy(schedule.calculatedWhen)
            /\ schedule.calculatedWhen < nowT
            /\ (~Truthy(schedule.lastRun)
                \/ schedule.lastRun < schedule.calculatedWhen)
         THEN << [scheduleId |-> schedule.id,
                  missedRunTime |-> schedule.calculatedWhen] >>
         ELSE <<>>
    ELSE MissedEntry(schedule,
             MissedWalk(schedule,
                 IF Truthy(schedule.lastRun) THEN schedule.lastRun ELSE 0,
                 Null, nowT))

RECURSIVE MissedAccumulator(_, _, _)
MissedAccumulator(scheds, i, nowT) ==
    IF i > Len(scheds) THEN <<>>
    ELSE MissedOfSchedule(scheds[i], nowT)
             \o MissedAccumulator(scheds, i + 1, nowT)

\* Array.from(new Map(acc.map(m => [key, m])).values()): one entry per key,
\* at the position of the key's first entry, holding the key's last entry
UniqueMissed(acc) ==
    LET First(i) == \A j \in 1..(i - 1) :
                        ~SameKey(acc[j], acc[i].scheduleId,
                                 acc[i].missedRunTime)
        firsts == SelectSeq([i \in 1..Len(acc) |-> i], First)
    IN  [k \in 1..Len(firsts) |-> acc[firsts[k]]]

\* variant: the tombstone log is not consulted
ActiveMissedUnfiltered(unique, clearedList) == unique

\* the filter against the tombstone log
ActiveMissed(unique, clearedList) ==
    LET NotCleared(missed) ==
            ~\E c \in Range(clearedList) :
                c.scheduleId = missed.scheduleId
                /\ c.missedRunTime = missed.missedRunTime
    IN  SelectSeq(unique, NotCleared)

\* variant: the flag of the persisted entry is not carried forward
CarriedFlagDropped(persisted, missed) == FALSE

\* hasBeenNotified an active entry starts the merge with
CarriedFlag(persisted, missed) ==
    IF \E p \in Range(persisted) :
           SameKey(p, missed.scheduleId, missed.missedRunTime)
    THEN LET i == CHOOSE i \in 1..Len(persisted) :
                      /\ SameKey(persisted[i], missed.scheduleId,
                                 missed.missedRunTime)
                      /\ \A j \in 1..(i - 1) :
                             ~SameKey(persisted[j], missed.scheduleId,
                                      missed.missedRunTime)
         IN  persisted[i].hasBeenNotified
    ELSE FALSE

\* variant: the persisted entries that are no longer active are kept
MergedMissedKeepingPersisted(active, persisted) ==
    LET Gone(p) == ~\E a \in Range(active) :
                        SameKey(a, p.scheduleId, p.missedRunTime)
    IN  [i \in 1..Len(active) |->
            [scheduleId      |-> active[i].scheduleId,
             missedRunTime   |-> active[i].missedRunTime,
             hasBeenNotified |-> CarriedFlag(persisted, active[i])]]
            \o SelectSeq(persisted, Gone)

\* newMissedAlarmsData before the notification
MergedMissed(active, persisted) ==
    [i \in 1..Len(active) |->
        [scheduleId      |-> active[i].scheduleId,
         missedRunTime   |-> active[i].missedRunTime,
         hasBeenNotified |-> CarriedFlag(persisted, active[i])]]

\* alarmsRequiringNotification
RequiringNotification(merged) ==
    LET Fresh(e) == ~e.hasBeenNotified
    IN  SelectSeq(merged, Fresh)

\* variant: only the first entry of the batch is flagged
MarkFirstNotified(merged, requiring) ==
    [i \in 1..Len(merged) |->
        IF SameKey(requiring[1], merged[i].scheduleId,
                   merged[i].missedRunTime)
        THEN [merged[i] EXCEPT !.hasBeenNotified = TRUE]
        ELSE merged[i]]

\* newMissedAlarmsData after the notified entries were flagged
MarkNotified(merged, requiring) ==
    [i \in 1..Len(merged) |->
        IF \E r \in Range(requiring) :
               SameKey(r, merged[i].scheduleId, merged[i].missedRunTime)
        THEN [merged[i] EXCEPT !.hasBeenNotified = TRUE]
        ELSE merged[i]]

\* variant: the entries of the batch are persisted as they were merged
NewMissedDataUnmarked(merged, requiring) == merged

\* newMissedAlarmsData as it is persisted
NewMissedData(merged, requiring) ==
    IF Len(requiring) > 0 THEN MarkNotified(merged, requiring) ELSE merged

\* variant: the pending list is stored also when it is empty
PersistMissedAlways(newData) ==
    missedData' = Present(newData)

\* the end of a pass: the pending list is stored, or its key removed
PersistMissed(newData) ==
    missedData' = IF Len(newData) > 0 THEN Present(newData) ELSE Absent

\* the notification and the persisting of a pass whose merge gave merged
NotifyAndPersist(merged) ==
    /\ notified' = RequiringNotification(merged)
    /\ PersistMissed(NewMissedData(merged, RequiringNotification(merged)))

\* a pass from the pruning of the tombstone log on
ReconcileWith(clearedList) ==
    /\ clearedLog' = clearedList
    /\ NotifyAndPersist(
           MergedMissed(
               ActiveMissed(
                   UniqueMissed(MissedAccumulator(schedules, 1, now)),
                   clearedList),
               missedData.list))

\* variant: the stored flag is not consulted
EnabledAlways(flag) == TRUE

\* settingsResult.chronotab_missed_alarms_enabled !== false, the stored
\* flag being "true", "false" or "absent"
MissedAlarmsEnabled(flag) == flag # "false"

\* one pass with every storage call succeeding; op.ok tells whether the
\* pass went past the enable flag
CheckMissedAlarmsOnStartup ==
    /\ op' = Op("checkMissedAlarms", NoId, Null,
                MissedAlarmsEnabled(missedAlarmsEnabled))
    /\ opened' = <<>>
    /\ UNCHANGED <<now, schedules, alarms, calcVars, uiVars, flightVars>>
    /\ IF ~MissedAlarmsEnabled(missedAlarmsEnabled)
       THEN /\ notified' = <<>>
            /\ UNCHANGED <<missedData, clearedLog>>
       ELSE IF Len(schedules) = 0
       THEN /\ missedData' = Absent
            /\ notified' = <<>>
            /\ UNCHANGED clearedLog
       ELSE ReconcileWith(pruneClearedMissedAlarms(clearedLog, now))

----------------------------------------------------------------------------
(* Run Executor: the chrome.alarms.onAlarm listener, scheduler.js          *)
(* runSchedule and the runtime.onMessage handlers of background.js.        *)

\* scheduler.js runSchedule: the URLs handed to chrome.tabs.create
runSchedule(schedule) ==
    IF Len(schedule.urls) > 0 THEN schedule.urls ELSE <<>>

RemoveId(scheds, id) ==
    LET Other(s) == s.id # id
    IN  SelectSeq(scheds, Other)

\* variant: a once schedule is stamped like the others and stays stored
RunMatchedKeepsOnce(scheds, schedule, nowT) ==
    LET scheduleIndex == FindIndex(scheds, schedule.id)
    IN  IF scheduleIndex # 0
        THEN [scheds EXCEPT ![scheduleIndex].lastRun = nowT]
        ELSE scheds

\* the update the onAlarm listener makes for one matched schedule:
\* lastRun = Date.now(), then a once schedule is filtered out
RunMatched(scheds, schedule, nowT) ==
    LET scheduleIndex == FindIndex(scheds, schedule.id)
        stamped == IF scheduleIndex # 0
                   THEN [scheds EXCEPT ![scheduleIndex].lastRun = nowT]
                   ELSE scheds
    IN  IF schedule.repeat = "once" THEN RemoveId(stamped, schedule.id)
        ELSE stamped

\* matches.forEach of the onAlarm listener: the array and the opened URLs
RECURSIVE RunMatches(_, _, _, _, _)
RunMatches(scheds, urls, matches, i, nowT) ==
    IF i > Len(matches) THEN [schedules |-> scheds, opened |-> urls]
    ELSE RunMatches(RunMatched(scheds, matches[i], nowT),
                    urls \o matches[i].urls, matches, i + 1, nowT)

\* the timer subsystem when the alarm a fires: a one-shot alarm is gone, a
\* periodic one is scheduled one period later
AfterFire(set, a) ==
    IF a.period = 0 THEN set \ {a}
    ELSE (set \ {a}) \cup {[a EXCEPT !.when = a.when + a.period]}

\* chrome.alarms.onAlarm listener; it ends by calling registerAlarms when
\* it stored the array
OnAlarm(a) ==
    /\ a \in alarms
    /\ a.when <= now
    /\ LET Matches(s) == StartsWith(a.name, s.id)
           matches == SelectSeq(schedules, Matches)
           run     == RunMatches(schedules, <<>>, matches, 1, now)
           schedulesWereModified == Len(matches) > 0
       IN  /\ opened' = run.opened
           /\ IF schedulesWereModified
              THEN StoreSchedules(RegisterResult(run.schedules, now))
              ELSE /\ schedules' = schedules
                   /\ alarms' = AfterFire(alarms, a)
           /\ op' = Op("onAlarm", a.name, a.when, schedulesWereModified)
    /\ UNCHANGED <<now, missedData, clearedLog, notified, calcVars, uiVars, flightVars>>

\* onMessage, action "runMissedAlarm"
RunMissedAlarm(id) ==
    LET scheduleIndex == FindIndex(schedules, id)
        scheduleToRun == schedules[scheduleIndex]
        stamped == [schedules EXCEPT ![scheduleIndex].lastRun = now]
        stored == IF scheduleToRun.repeat = "once"
                  THEN RemoveId(stamped, id) ELSE stamped
    IN  /\ IF scheduleIndex # 0
           THEN /\ opened' = runSchedule(scheduleToRun)
                /\ StoreSchedules(AfterStore(stored, now))
           ELSE /\ opened' = <<>>
                /\ UNCHANGED <<schedules, alarms>>
        /\ op' = Op("runMissedAlarm", id, Null, scheduleIndex # 0)
        /\ UNCHANGED <<now, missedData, clearedLog, notified, calcVars, uiVars, flightVars>>

\* the list a clear handler stores: the pruned log, then the new tombstones,
\* then pruned again
AppendCleared(log, entries, nowT) ==
    pruneClearedMissedAlarms(
        pruneClearedMissedAlarms(log, nowT)
            \o [i \in 1..Len(entries) |->
                   [scheduleId    |-> entries[i].scheduleId,
                    missedRunTime |-> entries[i].missedRunTime,
                    clearedAt     |-> nowT]],
        nowT)

\* variant: lastRun is overwritten without the test
ClearAdvancesAlways(lastRun, missedRunTime) == TRUE

\* the test both clear handlers make before they overwrite lastRun
ClearAdvances(lastRun, missedRunTime) ==
    ~Truthy(lastRun) \/ missedRunTime > lastRun

\* variant: the missed run time overwrites lastRun whatever it was
ClearedLastRunOverwritten(lastRun, missedRunTime) == missedRunTime

\* lastRun after a clear handler looked at one missed run time
ClearedLastRun(lastRun, missedRunTime) ==
    IF ClearAdvances(lastRun, missedRunTime) THEN missedRunTime ELSE lastRun

\* onMessage, action "clearMissedAlarmEntry"
ClearMissedAlarmEntry(id, t) ==
    LET scheduleIndex == FindIndex(schedules, id)
        Other(alarm) == ~SameKey(alarm, id, t)
        updated == SelectSeq(missedData.list, Other)
        found   == Len(updated) < Len(missedData.list)
        scheduleUpdatedInSync ==
            /\ scheduleIndex # 0
            /\ ClearAdvances(schedules[scheduleIndex].lastRun, t)
        stored ==
            IF scheduleIndex # 0
            THEN [schedules EXCEPT ![scheduleIndex].lastRun =
                                       ClearedLastRun(@, t)]
            ELSE schedules
    IN  /\ StoreSchedules(AfterStore(stored, now))
        /\ IF found
           THEN /\ missedData' = IF Len(updated) = 0 THEN Absent
                                 ELSE Present(updated)
                /\ clearedLog' =
                       AppendCleared(clearedLog,
                           <<[scheduleId |-> id, missedRunTime |-> t]>>, now)
           ELSE UNCHANGED <<missedData, clearedLog>>
        /\ op' = Op("clearMissedAlarmEntry", id, t,
                    found \/ scheduleUpdatedInSync)
        /\ opened' = <<>>
        /\ UNCHANGED <<now, notified, calcVars, uiVars, flightVars>>

\* the for loop of clearAllMissedAlarms over the pending entries
RECURSIVE ClearAllLastRuns(_, _, _)
ClearAllLastRuns(scheds, entries, i) ==
    IF i > Len(entries) THEN scheds
    ELSE LET scheduleIndex == FindIndex(scheds, entries[i].scheduleId)
         IN  ClearAllLastRuns(
                 IF scheduleIndex # 0
                 THEN [scheds EXCEPT ![scheduleIndex].lastRun =
                          ClearedLastRun(@, entries[i].missedRunTime)]
                 ELSE scheds,
                 entries, i + 1)

\* onMessage, action "clearAllMissedAlarms"
ClearAllMissedAlarms ==
    LET missedAlarmsToClear == missedData.list
        stored == ClearAllLastRuns(schedules, missedAlarmsToClear, 1)
    IN  /\ IF Len(missedAlarmsToClear) = 0
           THEN UNCHANGED <<schedules, alarms, missedData, clearedLog>>
           ELSE /\ StoreSchedules(AfterStore(stored, now))
                /\ missedData' = Absent
                /\ clearedLog' =
                       AppendCleared(clearedLog, missedAlarmsToClear, now)
        /\ op' = Op("clearAllMissedAlarms", NoId, Null, TRUE)
        /\ opened' = <<>>
        /\ UNCHANGED <<now, notified, calcVars, uiVars, flightVars>>

\* "Run now" of the context menu and of the dashboard: runSchedule only
RunNow(id) ==
    LET scheduleIndex == FindIndex(schedules, id)
    IN  /\ scheduleIndex # 0
        /\ opened' = runSchedule(schedules[scheduleIndex])
        /\ op' = Op("runNow", id, Null, TRUE)
        /\ UNCHANGED <<now, schedules, missedData, clearedLog, alarms,
                       notified, calcVars, uiVars, flightVars>>

----------------------------------------------------------------------------
(* The pages: ScheduleEditor handleSave.                                   *)

NewSchedule(id, urls, startDate, time, repeat, dayOfWeek) ==
    [id |-> id, urls |-> urls, time |-> startDate \o <<"T">> \o time,
     repeat |-> repeat, dayOfWeek |-> dayOfWeek,
     lastRun |-> Null, calculatedWhen |-> Null]

\* handleSave with editId, the form saved as it was loaded (only the name
\* edited): the stored object is replaced by the form's
HandleSaveEdit(id) ==
    LET stored == [i \in 1..Len(schedules) |->
                      IF schedules[i].id = id
                      THEN [id |-> id, urls |-> schedules[i].urls,
                            time |-> schedules[i].time,
                            repeat |-> schedules[i].repeat,
                            dayOfWeek |-> schedules[i].dayOfWeek,
                            lastRun |-> Null, calculatedWhen |-> Null]
                      ELSE schedules[i]]
    IN  /\ FindIndex(schedules, id) # 0
        /\ StoreSchedules(AfterStore(stored, now))
        /\ op' = Op("handleSaveEdit", id, Null, TRUE)
        /\ opened' = <<>>
        /\ UNCHANGED <<now, missedData, clearedLog, notified, calcVars, uiVars, flightVars>>

\* what the editor form can hold when it is saved
FormChoices ==
    { <<"once", <<>>  >>, <<"daily", <<>> >> }
        \cup { <<"weekly", d>> : d \in DowChoices }

\* the clock moves on while nothing runs (the process may be suspended)
Tick(t) ==
    /\ t > now
    /\ now' = t
    /\ op' = Op("tick", NoId, t, TRUE)
    /\ opened' = <<>>
    /\ UNCHANGED <<schedules, missedData, clearedLog, alarms, notified,
                   calcVars, uiVars, flightVars>>

----------------------------------------------------------------------------
(* The engine, every reaction run to completion before the next starts.    *)

\* what handleSave stored for the id
Saved(id, f) ==
    NewSchedule(id, UrlsOf(id), DateOf(2), <<"0", "9", ":", "0", "0">>,
                f[1], f[2])

\* the Schedule sets the user has saved before the engine starts
SavedSingles == { << Saved(<<"a">>, f) >> : f \in FormChoices }

SavedPairs ==
    { << Saved(<<"a">>, <<"once", <<>> >>), Saved(<<"b">>, <<"daily", <<>> >>) >>,
      << Saved(<<"a">>, <<"daily", <<>> >>), Saved(<<"b">>, <<"weekly", <<5, 6>> >>) >>,
      << Saved(<<"a">>, <<"weekly", <<5, 6>> >>), Saved(<<"b">>, <<"once", <<>> >>) >> }

\* the invocations of registerAlarms that can be in flight together
MaxRegistering == 2

\* the invocations of checkMissedAlarmsOnStartup that can be in flight
\* together
MaxChecking == 2

\* an invocation slot of registerAlarms: where the invocation stands ("idle"
\* when the slot is free) and the locals of its closure
IdleRegistration == [pc |-> "idle", schedulesToProcess |-> <<>>,
                     hasChangesToPersist |-> FALSE]

NoneRegistering == [i \in 1..MaxRegistering |-> IdleRegistration]

\* an invocation slot of checkMissedAlarmsOnStartup: where the invocation
\* stands ("idle" when the slot is free) and the locals that outlive an
\* await; raised, rejected and before are a record of the pass so far:
\* whether it has created the notification, whether a storage call of it
\* was rejected, and the stores as they were when it started
IdleCheck ==
    [pc |-> "idle", uniqueMissed |-> <<>>, activeMissedAlarms |-> <<>>,
     newMissedAlarmsData |-> <<>>, raised |-> FALSE, rejected |-> FALSE,
     before |-> [missedData |-> Absent, clearedLog |-> <<>>,
                 schedules |-> <<>>]]

NoneChecking == [i \in 1..MaxChecking |-> IdleCheck]

\* MissedSchedulesPage is not mounted
PageClosed == [open |-> FALSE, list |-> <<>>]

InitCalcIdle ==
    /\ calcTime = <<>>
    /\ calcDays = <<>>
    /\ calcFrom = 0
    /\ calcResult = Null

\* the Schedule set and the timer set registerAlarms left behind
Registered(r) ==
    /\ schedules = r.schedules
    /\ alarms = r.alarms

\* the state after the user saved the array saved at instant 0 and the
\* store-changed listener ran registerAlarms
InitMain(saved) ==
    /\ now = 0
    /\ Registered(RegisterResult(saved, 0))
    /\ missedData = Absent
    /\ clearedLog = <<>>
    /\ opened = <<>>
    /\ notified = <<>>
    /\ op = Op("init", NoId, Null, TRUE)
    /\ missedSchedules = PageClosed
    /\ missedAlarmsEnabled = "absent"
    /\ registering = NoneRegistering
    /\ checking = NoneChecking

Init == InitCalcIdle /\ \E saved \in SavedSingles : InitMain(saved)

\* the requests a page can send name an entry it has displayed
ClearableKeys ==
    KeysOf(missedData.list) \cup KeysOf(clearedLog)

Next ==
    \/ \E t \in ClockInstants : Tick(t)
    \/ \E id \in Ids : HandleSaveEdit(id)
    \/ RegisterAlarms
    \/ \E a \in alarms : OnAlarm(a)
    \/ CheckMissedAlarmsOnStartup
    \/ \E id \in Ids : RunMissedAlarm(id)
    \/ \E k \in ClearableKeys : ClearMissedAlarmEntry(k[1], k[2])
    \/ ClearAllMissedAlarms
    \/ \E id \in Ids : RunNow(id)

Spec == Init /\ [][Next]_vars

----------------------------------------------------------------------------
(* The engine with two schedules stored, on a shorter clock.               *)

PairClock == { d * MinutesPerDay + 541 : d \in 0..MaxPairDay }

InitPair == InitCalcIdle /\ \E saved \in SavedPairs : InitMain(saved)

\* the reactions of the engine, the editor and run now left aside
PairReactions ==
    \/ RegisterAlarms
    \/ \E a \in alarms : OnAlarm(a)
    \/ CheckMissedAlarmsOnStartup
    \/ \E id \in Ids : RunMissedAlarm(id)
    \/ \E k \in ClearableKeys : ClearMissedAlarmEntry(k[1], k[2])
    \/ ClearAllMissedAlarms

NextPair ==
    \/ \E t \in PairClock : Tick(t)
    \/ PairReactions

SpecPair == InitPair /\ [][NextPair]_vars

----------------------------------------------------------------------------
(* The engine with two schedules stored, over the retention window of the  *)
(* tombstone log.                                                          *)

\* 09:01 of day 0, then one minute before and the very minute a tombstone
\* written at 09:01 of day 0 turns thirty days old
RetainClock == { 541, ThirtyDays + 540, ThirtyDays + 541 }

NextRetain ==
    \/ \E t \in RetainClock : Tick(t)
    \/ PairReactions

SpecRetain == InitPair /\ [][NextRetain]_vars

----------------------------------------------------------------------------
(* The engine with two schedules stored and MissedSchedulesPage (main.jsx) *)
(* open on the pending list.                                               *)

\* fetchMissedSchedules, run when the page mounts
FetchMissedSchedules ==
    /\ missedSchedules' = [open |-> TRUE, list |-> missedData.list]
    /\ op' = Op("fetchMissedSchedules", NoId, Null, TRUE)
    /\ opened' = <<>>
    /\ UNCHANGED <<now, schedules, missedData, clearedLog, alarms, notified,
                   calcVars, missedAlarmsEnabled, flightVars>>

\* missedSchedules.filter(...) of the page: the entries other than (id, t)
WithoutEntry(list, id, t) ==
    LET Other(e) == ~SameKey(e, id, t)
    IN  SelectSeq(list, Other)

\* what the response callback of handleRunSchedule does on success
RunResponse(updatedMissedSchedules) ==
    /\ missedSchedules' = [open |-> TRUE, list |-> updatedMissedSchedules]
    /\ missedData' = Present(updatedMissedSchedules)

\* handleRunSchedule(scheduleId, missedRunTime) of the page: the
\* runMissedAlarm request, its handling in background.js, and the response
\* callback
HandleRunSchedule(id, t) ==
    LET scheduleIndex == FindIndex(schedules, id)
        scheduleToRun == schedules[scheduleIndex]
        stamped == [schedules EXCEPT ![scheduleIndex].lastRun = now]
        stored == IF scheduleToRun.repeat = "once"
                  THEN RemoveId(stamped, id) ELSE stamped
    IN  /\ missedSchedules.open
        /\ IF scheduleIndex # 0
           THEN /\ opened' = runSchedule(scheduleToRun)
                /\ StoreSchedules(AfterStore(stored, now))
                /\ RunResponse(WithoutEntry(missedSchedules.list, id, t))
           ELSE /\ opened' = <<>>
                /\ UNCHANGED <<schedules, alarms, missedData,
                               missedSchedules>>
        /\ op' = Op("handleRunSchedule", id, t, scheduleIndex # 0)
        /\ UNCHANGED <<now, clearedLog, notified, calcVars,
                       missedAlarmsEnabled, flightVars>>

\* handleMissedAlarmsToggle of the settings menu (Footer.jsx)
HandleMissedAlarmsToggle(isEnabled) ==
    /\ missedAlarmsEnabled' = IF isEnabled THEN "true" ELSE "false"
    /\ op' = Op("handleMissedAlarmsToggle", NoId, Null, isEnabled)
    /\ opened' = <<>>
    /\ UNCHANGED <<now, schedules, missedData, clearedLog, alarms, notified,
                   calcVars, missedSchedules, flightVars>>

NextPage ==
    \/ \E t \in PairClock : Tick(t)
    \/ \E isEnabled \in BOOLEAN : HandleMissedAlarmsToggle(isEnabled)
    \/ \E a \in alarms : OnAlarm(a)
    \/ CheckMissedAlarmsOnStartup
    \/ FetchMissedSchedules
    \/ \E k \in KeysOf(missedSchedules.list) : HandleRunSchedule(k[1], k[2])

SpecPage == InitPair /\ [][NextPage]_vars

\* handleClearSpecificSchedule(scheduleId, missedRunTime) of the page: the
\* filtered list is stored by the page itself
HandleClearSpecificSchedule(id, t) ==
    /\ missedSchedules.open
    /\ missedSchedules' =
           [open |-> TRUE, list |-> WithoutEntry(missedSchedules.list, id, t)]
    /\ missedData' = Present(WithoutEntry(missedSchedules.list, id, t))
    /\ op' = Op("handleClearSpecificSchedule", id, t, TRUE)
    /\ opened' = <<>>
    /\ UNCHANGED <<now, schedules, clearedLog, alarms, notified, calcVars,
                   missedAlarmsEnabled, flightVars>>

\* handleClearAllMissed of the page: the pending key is removed by the page
\* itself
HandleClearAllMissed ==
    /\ missedSchedules.open
    /\ missedSchedules' = [open |-> TRUE, list |-> <<>>]
    /\ missedData' = Absent
    /\ op' = Op("handleClearAllMissed", NoId, Null, TRUE)
    /\ opened' = <<>>
    /\ UNCHANGED <<now, schedules, clearedLog, alarms, notified, calcVars,
                   missedAlarmsEnabled, flightVars>>

NextPageClear ==
    \/ NextPage
    \/ \E k \in KeysOf(missedSchedules.list) :
          HandleClearSpecificSchedule(k[1], k[2])
    \/ HandleClearAllMissed

SpecPageClear == InitPair /\ [][NextPageClear]_vars

\* Dashboard handleDelete with registerAlarms run to completion after the
\* store change
HandleDeleteAtOnce(id) ==
    /\ FindIndex(schedules, id) # 0
    /\ StoreSchedules(AfterStore(RemoveId(schedules, id), now))
    /\ op' = Op("handleDelete", id, Null, TRUE)
    /\ opened' = <<>>
    /\ UNCHANGED <<now, missedData, clearedLog, notified, calcVars, uiVars,
                   flightVars>>

\* passes over thirty days with the detection switched off and on and the
\* schedules deleted one by one
NextPrune ==
    \/ \E t \in RetainClock : Tick(t)
    \/ \E isEnabled \in BOOLEAN : HandleMissedAlarmsToggle(isEnabled)
    \/ CheckMissedAlarmsOnStartup
    \/ \E k \in ClearableKeys : ClearMissedAlarmEntry(k[1], k[2])
    \/ \E id \in Ids : HandleDeleteAtOnce(id)

SpecPrune == InitPair /\ [][NextPrune]_vars

----------------------------------------------------------------------------
(* registerAlarms step by step: the storage read, chrome.alarms.clearAll   *)
(* and the clearAll callback of one invocation are separate turns of the   *)
(* event loop, and the turns of several invocations interleave.            *)

IdleSlots(reg) == { i \in DOMAIN reg : reg[i].pc = "idle" }

FreeSlot(reg) == CHOOSE i \in IdleSlots(reg) : \A j \in IdleSlots(reg) : i <= j

\* registerAlarms() is called: chrome.storage.sync.get is issued
Invoke(reg) ==
    [reg EXCEPT ![FreeSlot(reg)] =
        [pc |-> "get", schedulesToProcess |-> <<>>,
         hasChangesToPersist |-> FALSE]]

\* the closure of an invocation once its get callback has run on the array
\* orig
AfterGet(orig, processed) ==
    [pc |-> "clearAll", schedulesToProcess |-> processed,
     hasChangesToPersist |->
         \E j \in 1..Len(orig) :
             processed[j].calculatedWhen # orig[j].calculatedWhen]

\* a call of registerAlarms with no store change behind it (onInstalled,
\* onSchedulesChanged)
InvokeRegisterAlarms ==
    /\ IdleSlots(registering) # {}
    /\ registering' = Invoke(registering)
    /\ op' = Op("invokeRegisterAlarms", NoId, Null, TRUE)
    /\ opened' = <<>>
    /\ UNCHANGED <<now, schedules, missedData, clearedLog, alarms, notified,
                   calcVars, uiVars, checking>>

\* Dashboard handleDelete: the array without the schedule is stored, and
\* the store-changed listener calls registerAlarms
HandleDelete(id) ==
    /\ FindIndex(schedules, id) # 0
    /\ IdleSlots(registering) # {}
    /\ schedules' = RemoveId(schedules, id)
    /\ registering' = Invoke(registering)
    /\ op' = Op("handleDelete", id, Null, TRUE)
    /\ opened' = <<>>
    /\ UNCHANGED <<now, missedData, clearedLog, alarms, notified, calcVars,
                   uiVars, checking>>

\* the callback of chrome.storage.sync.get: schedulesToProcess is computed
\* and chrome.alarms.clearAll is issued
RegisterGet(i) ==
    /\ registering[i].pc = "get"
    /\ registering' =
           [registering EXCEPT
               ![i] = AfterGet(schedules, SchedulesToProcess(schedules, now))]
    /\ op' = Op("registerAlarms.get", NoId, i, TRUE)
    /\ opened' = <<>>
    /\ UNCHANGED <<now, schedules, missedData, clearedLog, alarms, notified,
                   calcVars, uiVars, checking>>

\* chrome.alarms.clearAll takes effect
RegisterClearAll(i) ==
    /\ registering[i].pc = "clearAll"
    /\ alarms' = {}
    /\ registering' = [registering EXCEPT ![i].pc = "create"]
    /\ op' = Op("registerAlarms.clearAll", NoId, i, TRUE)
    /\ opened' = <<>>
    /\ UNCHANGED <<now, schedules, missedData, clearedLog, notified,
                   calcVars, uiVars, checking>>

\* variant: the store-changed listener calls registerAlarms after every
\* invocation, whether it stored a changed array or not
FinishedCallingAgain(stored) ==
    [pc |-> "get", schedulesToProcess |-> <<>>,
     hasChangesToPersist |-> FALSE]

\* the slot of an invocation that has finished; its own store change, if
\* any, has the store-changed listener call registerAlarms again
Finished(stored) ==
    IF stored # schedules
    THEN [pc |-> "get", schedulesToProcess |-> <<>>,
          hasChangesToPersist |-> FALSE]
    ELSE IdleRegistration

\* the array in the store after the clearAll callback of an invocation
StoredBy(r) ==
    IF r.hasChangesToPersist THEN r.schedulesToProcess ELSE schedules

\* the callback of chrome.alarms.clearAll: the timers are created from
\* schedulesToProcess, which is stored when hasChangesToPersist
RegisterCreate(i) ==
    /\ registering[i].pc = "create"
    /\ alarms' = AlarmsOfAll(alarms, registering[i].schedulesToProcess, 1, now)
    /\ schedules' = StoredBy(registering[i])
    /\ registering' =
           [registering EXCEPT ![i] = Finished(StoredBy(registering[i]))]
    /\ op' = Op("registerAlarms.create", NoId, i, TRUE)
    /\ opened' = <<>>
    /\ UNCHANGED <<now, missedData, clearedLog, notified, calcVars, uiVars,
                   checking>>

\* the user has saved two schedules at instant 0 and the store-changed
\* listener has just called registerAlarms
InitRegister ==
    /\ InitCalcIdle
    /\ now = 0
    /\ schedules \in SavedPairs
    /\ alarms = {}
    /\ missedData = Absent
    /\ clearedLog = <<>>
    /\ opened = <<>>
    /\ notified = <<>>
    /\ op = Op("init", NoId, Null, TRUE)
    /\ missedSchedules = PageClosed
    /\ missedAlarmsEnabled = "absent"
    /\ registering = Invoke(NoneRegistering)
    /\ checking = NoneChecking

NextRegister ==
    \/ InvokeRegisterAlarms
    \/ \E id \in Ids : HandleDelete(id)
    \/ \E i \in DOMAIN registering : RegisterGet(i)
    \/ \E i \in DOMAIN registering : RegisterClearAll(i)
    \/ \E i \in DOMAIN registering : RegisterCreate(i)

SpecRegister == InitRegister /\ [][NextRegister]_vars

\* the onAlarm listener among registerAlarms invocations in flight: the
\* array it stores is in the store from its get callback on, and the
\* callback of its set calls registerAlarms
OnAlarmTurn(a, matches) ==
    /\ a \in alarms
    /\ a.when <= now
    /\ Len(matches) > 0 => IdleSlots(registering) # {}
    /\ opened' = RunMatches(schedules, <<>>, matches, 1, now).opened
    /\ schedules' = RunMatches(schedules, <<>>, matches, 1, now).schedules
    /\ alarms' = AfterFire(alarms, a)
    /\ registering' = IF Len(matches) > 0 THEN Invoke(registering)
                      ELSE registering
    /\ op' = Op("onAlarm", a.name, a.when, Len(matches) > 0)
    /\ UNCHANGED <<now, missedData, clearedLog, notified, calcVars, uiVars,
                   checking>>

\* the schedules an alarm name matches, alarm.name.startsWith(s.id)
MatchesOf(a) ==
    LET Matches(s) == StartsWith(a.name, s.id)
    IN  SelectSeq(schedules, Matches)

NextRace ==
    \/ \E t \in PairClock : Tick(t)
    \/ InvokeRegisterAlarms
    \/ \E a \in alarms : OnAlarmTurn(a, MatchesOf(a))
    \/ \E i \in DOMAIN registering : RegisterGet(i)
    \/ \E i \in DOMAIN registering : RegisterClearAll(i)
    \/ \E i \in DOMAIN registering : RegisterCreate(i)

SpecRace == InitRegister /\ [][NextRace]_vars

----------------------------------------------------------------------------
(* checkMissedAlarmsOnStartup step by step: every await ends a turn of the *)
(* event loop, a storage call can be rejected, and the runtime events that *)
(* start a pass are delivered by the browser.                              *)

InFlight(chk) == { i \in DOMAIN chk : chk[i].pc # "idle" }

\* checkMissedAlarmsOnStartup() is called: chrome.storage.sync.get is issued
StartPass(chk) ==
    [chk EXCEPT ![FreeSlot(chk)] =
        [IdleCheck EXCEPT
            !.pc = "settings",
            !.before = [missedData |-> missedData,
                        clearedLog |-> clearedLog,
                        schedules  |-> schedules]]]

\* the passes in flight in the service worker an event is delivered to:
\* the browser starts the worker for the event, and the invocations of the
\* worker before it are gone, unless the event comes with the event other
\* that started the worker (a browser start that applies an update
\* delivers both onStartup and onInstalled)
InWorker(chk, other) == IF op.name = other THEN chk ELSE NoneChecking

\* chrome.runtime.onStartup listener
OnStartup ==
    /\ IdleSlots(InWorker(checking, "onInstalled")) # {}
    /\ checking' = StartPass(InWorker(checking, "onInstalled"))
    /\ op' = Op("onStartup", NoId, Null, TRUE)
    /\ opened' = <<>>
    /\ UNCHANGED <<now, schedules, missedData, clearedLog, alarms, notified,
                   calcVars, uiVars, registering>>

\* chrome.runtime.onInstalled listener: registerAlarms, the default of the
\* enable flag, and a pass when the reason is install or update
OnInstalled(reason) ==
    /\ IdleSlots(InWorker(checking, "onStartup")) # {}
    /\ StoreSchedules(RegisterResult(schedules, now))
    /\ missedAlarmsEnabled' =
           IF missedAlarmsEnabled = "absent" THEN "true"
           ELSE missedAlarmsEnabled
    /\ checking' = IF reason \in {"install", "update"}
                   THEN StartPass(InWorker(checking, "onStartup"))
                   ELSE InWorker(checking, "onStartup")
    /\ op' = Op("onInstalled", NoId, Null, TRUE)
    /\ opened' = <<>>
    /\ UNCHANGED <<now, missedData, clearedLog, notified, calcVars,
                   missedSchedules, registering>>

\* the pass leaves the function: the catch block after a rejection, or a
\* return
EndPass(i, rejected) ==
    /\ checking' = [checking EXCEPT ![i] = IdleCheck]
    /\ op' = Op("checkMissedAlarms.end", NoId, i, ~rejected)

\* the pass reaches its next await
NextTurn(i, slot) ==
    /\ checking' = [checking EXCEPT ![i] = slot]
    /\ op' = Op("checkMissedAlarms.turn", NoId, i, TRUE)

\* the turn after chrome.storage.sync.get: the flag, the empty Schedule
\* set, the loop over the schedules
CheckSettings(i, rejected) ==
    /\ checking[i].pc = "settings"
    /\ IF rejected \/ ~MissedAlarmsEnabled(missedAlarmsEnabled)
       THEN EndPass(i, rejected)
       ELSE IF Len(schedules) = 0
       THEN NextTurn(i, [checking[i] EXCEPT !.pc = "store"])
       ELSE NextTurn(i, [checking[i] EXCEPT
                !.pc = "cleared",
                !.uniqueMissed =
                    UniqueMissed(MissedAccumulator(schedules, 1, now))])
    /\ opened' = <<>>
    /\ UNCHANGED <<now, schedules, missedData, clearedLog, alarms, notified,
                   calcVars, uiVars, registering>>

\* clearedList after the inner try block: empty when the get was rejected
ClearedListAfter(outcome) ==
    IF outcome = "getRejected" THEN <<>>
    ELSE pruneClearedMissedAlarms(clearedLog, now)

\* the inner try block on the tombstone log and the filter after it; a
\* rejection is caught there and the pass goes on
CheckCleared(i, outcome) ==
    /\ checking[i].pc = "cleared"
    /\ clearedLog' = IF outcome = "ok" THEN ClearedListAfter(outcome)
                     ELSE clearedLog
    /\ NextTurn(i, [checking[i] EXCEPT
           !.pc = "persisted",
           !.rejected = (outcome # "ok"),
           !.activeMissedAlarms =
               ActiveMissed(checking[i].uniqueMissed,
                            ClearedListAfter(outcome))])
    /\ opened' = <<>>
    /\ UNCHANGED <<now, schedules, missedData, alarms, notified, calcVars,
                   uiVars, registering>>

\* the locals of the pass once the merge and the notification are done
AfterMerge(slot, merged) ==
    [slot EXCEPT
        !.pc = "store",
        !.raised = Len(RequiringNotification(merged)) > 0,
        !.newMissedAlarmsData =
            NewMissedData(merged, RequiringNotification(merged))]

\* the turn after the get of the pending list: the merge, the notification
\* and the flagging
CheckPersisted(i, rejected) ==
    /\ checking[i].pc = "persisted"
    /\ IF rejected
       THEN /\ EndPass(i, TRUE)
            /\ UNCHANGED notified
       ELSE /\ notified' = RequiringNotification(
                   MergedMissed(checking[i].activeMissedAlarms,
                                missedData.list))
            /\ NextTurn(i, AfterMerge(checking[i],
                   MergedMissed(checking[i].activeMissedAlarms,
                                missedData.list)))
    /\ opened' = <<>>
    /\ UNCHANGED <<now, schedules, missedData, clearedLog, alarms, calcVars,
                   uiVars, registering>>

\* the set or remove of the pending list that ends the pass
CheckStore(i, rejected) ==
    /\ checking[i].pc = "store"
    /\ IF rejected
       THEN UNCHANGED missedData
       ELSE PersistMissed(checking[i].newMissedAlarmsData)
    /\ EndPass(i, rejected)
    /\ opened' = <<>>
    /\ UNCHANGED <<now, schedules, clearedLog, alarms, notified, calcVars,
                   uiVars, registering>>

\* the turns of the passes in flight, every storage call succeeding
PassTurns ==
    \/ \E i \in DOMAIN checking : CheckSettings(i, FALSE)
    \/ \E i \in DOMAIN checking : CheckCleared(i, "ok")
    \/ \E i \in DOMAIN checking : CheckPersisted(i, FALSE)
    \/ \E i \in DOMAIN checking : CheckStore(i, FALSE)

InstallReasons == {"install", "update", "chrome_update"}

NextStartup ==
    \/ \E t \in PairClock : Tick(t)
    \/ OnStartup
    \/ \E reason \in InstallReasons : OnInstalled(reason)
    \/ PassTurns

SpecStartup == InitPair /\ [][NextStartup]_vars

\* the turns of the passes in flight, one storage call of the turn rejected
RejectedTurns ==
    \/ \E i \in DOMAIN checking : CheckSettings(i, TRUE)
    \/ \E i \in DOMAIN checking :
          \E outcome \in {"getRejected", "setRejected"} :
              CheckCleared(i, outcome)
    \/ \E i \in DOMAIN checking : CheckPersisted(i, TRUE)
    \/ \E i \in DOMAIN checking : CheckStore(i, TRUE)

\* the user clears an entry shown to them while no pass is in flight
ClearBetweenPasses(id, t) ==
    /\ InFlight(checking) = {}
    /\ ClearMissedAlarmEntry(id, t)

\* browser starts with no update to apply, storage calls that may be
\* rejected, and the user clearing entries between the passes
NextRejected ==
    \/ \E t \in PairClock : Tick(t)
    \/ OnStartup
    \/ PassTurns
    \/ RejectedTurns
    \/ \E k \in KeysOf(missedData.list) : ClearBetweenPasses(k[1], k[2])

SpecRejected == InitPair /\ [][NextRejected]_vars

----------------------------------------------------------------------------
(* The onMessage handlers with a storage call that may be rejected.  A     *)
(* handler runs up to the rejected call; what it stored before stays.      *)

\* the storage calls of a handler, in the order it makes them ("localSet"
\* is the set or the remove of the pending list), and "none"
RequestCalls ==
    {"none", "syncGet", "syncSet", "localGet", "localSet", "clearedGet",
     "clearedSet"}

\* a response that reports success whatever happened
RequestSucceeding(name, id, t, ok, rejected) ==
    [name |-> name, id |-> id, t |-> t, ok |-> TRUE, rejected |-> rejected]

\* the response of a handler, with the call of it that was rejected
Request(name, id, t, ok, rejected) ==
    [name |-> name, id |-> id, t |-> t, ok |-> ok, rejected |-> rejected]

\* schedulesToUpdate of the runMissedAlarm handler when the schedule is found
RunStored(id, scheduleIndex) ==
    IF schedules[scheduleIndex].repeat = "once"
    THEN RemoveId(schedules, id)
    ELSE [schedules EXCEPT ![scheduleIndex].lastRun = now]

\* onMessage, action "runMissedAlarm", the call rejected being rejected
RunMissedAlarmWith(id, scheduleIndex, rejected) ==
    /\ scheduleIndex = FindIndex(schedules, id)
    /\ rejected \in {"none", "syncGet", "syncSet"}
    /\ rejected = "syncSet" => scheduleIndex # 0
    /\ opened' = IF rejected # "syncGet" /\ scheduleIndex # 0
                 THEN runSchedule(schedules[scheduleIndex]) ELSE <<>>
    /\ IF rejected = "none" /\ scheduleIndex # 0
       THEN StoreSchedules(AfterStore(RunStored(id, scheduleIndex), now))
       ELSE UNCHANGED <<schedules, alarms>>
    /\ op' = Request("runMissedAlarm", id, Null,
                     rejected = "none" /\ scheduleIndex # 0, rejected)
    /\ UNCHANGED <<now, missedData, clearedLog, notified, calcVars, uiVars,
                   flightVars>>

\* the schedules array of the clearMissedAlarmEntry handler after step 1
ClearStored(id, t) ==
    [i \in 1..Len(schedules) |->
        IF schedules[i].id = id /\ i = FindIndex(schedules, id)
        THEN [schedules[i] EXCEPT !.lastRun = ClearedLastRun(@, t)]
        ELSE schedules[i]]

\* the tombstone log a clear handler stores for the entries it cleared: the
\* list it read is empty when the get was rejected
ClearedLogWith(entries, rejected) ==
    IF rejected = "none" THEN AppendCleared(clearedLog, entries, now)
    ELSE IF rejected = "clearedGet" THEN AppendCleared(<<>>, entries, now)
    ELSE clearedLog

\* onMessage, action "clearMissedAlarmEntry", the call rejected being
\* rejected; found: the entry is in the pending list
ClearMissedAlarmEntryWith(id, t, found, rejected) ==
    /\ found = (<<id, t>> \in KeysOf(missedData.list))
    /\ rejected = "syncSet" => ClearStored(id, t) # schedules
    /\ rejected \in {"localSet", "clearedGet", "clearedSet"} => found
    /\ IF rejected \in {"syncGet", "syncSet"}
       THEN UNCHANGED <<schedules, alarms>>
       ELSE StoreSchedules(AfterStore(ClearStored(id, t), now))
    /\ missedData' =
           IF found /\ rejected \in {"none", "clearedGet", "clearedSet"}
           THEN IF Len(WithoutEntry(missedData.list, id, t)) = 0 THEN Absent
                ELSE Present(WithoutEntry(missedData.list, id, t))
           ELSE missedData
    /\ clearedLog' =
           IF found
           THEN ClearedLogWith(<<[scheduleId |-> id, missedRunTime |-> t]>>,
                               rejected)
           ELSE clearedLog
    /\ op' = Request("clearMissedAlarmEntry", id, t,
                     /\ rejected \in {"none", "clearedGet"}
                     /\ (found \/ ClearStored(id, t) # schedules),
                     rejected)
    /\ opened' = <<>>
    /\ UNCHANGED <<now, notified, calcVars, uiVars, flightVars>>

\* onMessage, action "clearAllMissedAlarms", the call rejected being
\* rejected; stored: the schedules array after the for loop
ClearAllMissedAlarmsWith(stored, rejected) ==
    /\ stored = ClearAllLastRuns(schedules, missedData.list, 1)
    /\ rejected \notin {"none", "localGet"} => Len(missedData.list) > 0
    /\ rejected = "syncSet" => stored # schedules
    /\ IF Len(missedData.list) = 0
          \/ rejected \in {"localGet", "syncGet", "syncSet"}
       THEN UNCHANGED <<schedules, alarms, missedData, clearedLog>>
       ELSE /\ StoreSchedules(AfterStore(stored, now))
            /\ missedData' = IF rejected = "localSet" THEN missedData
                             ELSE Absent
            /\ clearedLog' = IF rejected = "localSet" THEN clearedLog
                             ELSE ClearedLogWith(missedData.list, rejected)
    /\ op' = Request("clearAllMissedAlarms", NoId, Null,
                     rejected \in {"none", "clearedGet"}, rejected)
    /\ opened' = <<>>
    /\ UNCHANGED <<now, notified, calcVars, uiVars, flightVars>>

\* the keys a clear request of the page names: the pending ones
RequestKeys == KeysOf(missedData.list)

NextRequests ==
    \/ \E t \in PairClock : Tick(t)
    \/ CheckMissedAlarmsOnStartup
    \/ \E id \in Ids, rejected \in RequestCalls :
          RunMissedAlarmWith(id, FindIndex(schedules, id), rejected)
    \/ \E k \in RequestKeys, rejected \in RequestCalls :
          ClearMissedAlarmEntryWith(k[1], k[2],
              <<k[1], k[2]>> \in KeysOf(missedData.list), rejected)
    \/ \E rejected \in RequestCalls :
          ClearAllMissedAlarmsWith(
              ClearAllLastRuns(schedules, missedData.list, 1), rejected)

SpecRequests == Init /\ [][NextRequests]_vars

----------------------------------------------------------------------------
(* The calculators on their own: an input is chosen, a calculator runs.    *)

Pad2(n) == <<Digits[(n \div 10) + 1], Digits[(n % 10) + 1]>>

\* "HH:mm", bare or as the time part of an ISO date-time
TimeString(h, m, iso) ==
    IF iso THEN DateOf(5) \o <<"T">> \o Pad2(h) \o <<":">> \o Pad2(m)
    ELSE Pad2(h) \o <<":">> \o Pad2(m)

CalcHM == { <<0, 0>>, <<9, 0>>, <<14, 30>>, <<23, 59>> }

CalcValidTimes ==
    { TimeString(hm[1], hm[2], iso) : hm \in CalcHM, iso \in BOOLEAN }

CalcInvalidTimes ==
    { <<>>, <<"2", "4", ":", "0", "0">>, <<"0", "9", ":", "6", "0">>,
      <<"0", "9", "0", "0">>, DateOf(5) \o <<"T">>, <<"x", ":", "0", "0">> }

CalcMinutes == {0, 1, 539, 540, 541, 870, 1438, 1439}

CalcInstants ==
    { d * MinutesPerDay + m : d \in 0..MaxCalcDay, m \in CalcMinutes }

CalcDaySets == { <<>>, <<1, 3>>, <<7>>, <<6, 5, 4>> }

InitCalc ==
    /\ InitMain(<< Saved(<<"a">>, <<"daily", <<>> >>) >>)
    /\ calcTime \in CalcValidTimes \cup CalcInvalidTimes \cup {Undefined}
    /\ calcDays \in CalcDaySets
    /\ calcFrom \in CalcInstants
    /\ calcResult = Null

CallGetNextOccurrenceFrom ==
    /\ op.name = "init"
    /\ calcResult' = getNextOccurrenceFrom(calcTime, calcFrom)
    /\ op' = Op("getNextOccurrenceFrom", NoId, calcFrom, TRUE)
    /\ UNCHANGED <<now, schedules, missedData, clearedLog, alarms, opened,
                   notified, calcTime, calcDays, calcFrom, uiVars, flightVars>>

CallGetNextWeeklyOccurrenceFrom ==
    /\ op.name = "init"
    /\ calcResult' =
           getNextWeeklyOccurrenceFrom(calcTime, calcDays, calcFrom)
    /\ op' = Op("getNextWeeklyOccurrenceFrom", NoId, calcFrom, TRUE)
    /\ UNCHANGED <<now, schedules, missedData, clearedLog, alarms, opened,
                   notified, calcTime, calcDays, calcFrom, uiVars, flightVars>>

\* the page's calculators, called at the instant calcFrom
CallGetNextOccurrence ==
    /\ op.name = "init"
    /\ calcResult' = getNextOccurrence(calcTime, calcFrom)
    /\ op' = Op("getNextOccurrence", NoId, calcFrom, TRUE)
    /\ UNCHANGED <<now, schedules, missedData, clearedLog, alarms, opened,
                   notified, calcTime, calcDays, calcFrom, uiVars, flightVars>>

CallGetNextWeeklyOccurrence(dow) ==
    /\ op.name = "init"
    /\ calcResult' = getNextWeeklyOccurrence(calcTime, dow, calcFrom)
    /\ op' = Op("getNextWeeklyOccurrence", NoId, calcFrom, TRUE)
    /\ UNCHANGED <<now, schedules, missedData, clearedLog, alarms, opened,
                   notified, calcTime, calcDays, calcFrom, uiVars, flightVars>>

ImportedId == <<"b">>

\* the object importSchedule pushes: the parsed JSON with a fresh id and
\* without lastRun and calculatedWhen
Imported(repeat) ==
    [id |-> ImportedId, urls |-> UrlsOf(ImportedId), time |-> calcTime,
     repeat |-> repeat, dayOfWeek |-> calcDays,
     lastRun |-> Null, calculatedWhen |-> Null]

\* !importedSchedule.time : a missing time and the empty string are falsy
ImportRejected == calcTime = Undefined \/ calcTime = <<>>

\* importSchedule, at the instant calcFrom, of a JSON whose time is calcTime;
\* the store is followed by registerAlarms (the onChanged listener's and
\* the callback's)
ImportSchedule(repeat) ==
    /\ op.name = "init"
    /\ now' = calcFrom
    /\ IF ImportRejected
       THEN /\ op' = Op("importSchedule", ImportedId, Null, FALSE)
            /\ UNCHANGED <<schedules, alarms>>
       ELSE /\ op' = Op("importSchedule", ImportedId, calcFrom, TRUE)
            /\ StoreSchedules(AfterStore(Append(schedules, Imported(repeat)),
                                         calcFrom))
    /\ UNCHANGED <<missedData, clearedLog, opened, notified, calcVars, uiVars, flightVars>>

NextCalc ==
    \/ CallGetNextOccurrenceFrom
    \/ CallGetNextWeeklyOccurrenceFrom
    \/ CallGetNextOccurrence
    \/ \E dow \in 1..7 : CallGetNextWeeklyOccurrence(dow)
    \/ \E repeat \in {"once", "daily", "weekly"} : ImportSchedule(repeat)

SpecCalc == InitCalc /\ [][NextCalc]_vars

----------------------------------------------------------------------------
(* The while loop of the daily/weekly branch of checkMissedAlarmsOnStartup *)
(* turn by turn, for the one schedule stored: calcFrom is                  *)
(* potentialNextRunTime and calcResult is calculatedNext.                  *)

\* the walk starts from days 0..MaxWalkDay and the pass runs on one of them
MaxWalkDay == 3

WalkInstants ==
    { d * MinutesPerDay + m : d \in 0..MaxWalkDay, m \in {539, 540, 541} }

\* the time strings of the walked schedule
WalkTimes ==
    { TimeString(9, 0, TRUE), TimeString(9, 0, FALSE),
      <<"0", "9", ":", "6", "0">>, <<>>, Undefined }

\* repeat and dayOfWeek of the walked schedule
WalkRules ==
    { <<"daily", <<>> >>, <<"weekly", <<5, 6>> >>, <<"weekly", <<4>> >>,
      <<"weekly", <<>> >> }

\* let potentialNextRunTime = schedule.lastRun || 0
WalkStart(schedule) ==
    IF Truthy(schedule.lastRun) THEN schedule.lastRun ELSE 0

InitWalk ==
    /\ InitCalcIdle
    /\ now = 0
    /\ schedules = <<>>
    /\ alarms = {}
    /\ missedData = Absent
    /\ clearedLog = <<>>
    /\ opened = <<>>
    /\ notified = <<>>
    /\ op = Op("init", NoId, Null, TRUE)
    /\ missedSchedules = PageClosed
    /\ missedAlarmsEnabled = "absent"
    /\ registering = NoneRegistering
    /\ checking = NoneChecking

\* the schedule the for loop of a pass at instant nowT has reached
WalkedSchedule(time, rule, lastRun) ==
    [id |-> <<"a">>, urls |-> UrlsOf(<<"a">>), time |-> time,
     repeat |-> rule[1], dayOfWeek |-> rule[2],
     lastRun |-> lastRun, calculatedWhen |-> Null]

\* the for loop of a pass at instant nowT enters the daily/weekly branch
WalkBegin(time, rule, lastRun, nowT) ==
    /\ op.name = "init"
    /\ lastRun # Null => lastRun <= nowT
    /\ now' = nowT
    /\ schedules' = << WalkedSchedule(time, rule, lastRun) >>
    /\ calcTime' = time
    /\ calcDays' = rule[2]
    /\ calcFrom' = WalkStart(WalkedSchedule(time, rule, lastRun))
    /\ calcResult' = Null
    /\ op' = Op("walk.begin", NoId, nowT, TRUE)
    /\ UNCHANGED <<missedData, clearedLog, alarms, opened, notified, uiVars,
                   flightVars>>

\* the loop is at its test
Walking == op.name \in {"walk.begin", "walk.turn"}

\* calculatedNext of a turn, Null when the else branch breaks
CalculatedNext(schedule, potentialNextRunTime) ==
    IF schedule.repeat = "daily"
    THEN getNextOccurrenceFrom(schedule.time, potentialNextRunTime)
    ELSE IF schedule.repeat = "weekly" /\ Len(schedule.dayOfWeek) > 0
    THEN getNextWeeklyOccurrenceFrom(schedule.time, schedule.dayOfWeek,
                                     potentialNextRunTime)
    ELSE Null

\* the instants a walk computes a candidate from
WalkFroms == WalkInstants \cup {0}

\* CalculatedNext for every schedule and instant of the walks, computed once
CalculatedNextOf ==
    [time \in WalkTimes |->
        [rule \in WalkRules |->
            [from \in WalkFroms |->
                CalculatedNext(WalkedSchedule(time, rule, Null), from)]]]

\* the walk after calculatedNext was computed: the calculator threw, the
\* candidate is taken, or the loop breaks
WalkOn(calculatedNext) ==
    /\ calcResult' = calculatedNext
    /\ IF calculatedNext = Thrown
       THEN /\ op' = Op("walk.threw", NoId, calcFrom, FALSE)
            /\ calcFrom' = calcFrom
       ELSE IF Truthy(calculatedNext) /\ calculatedNext < now
       THEN /\ op' = Op("walk.turn", NoId, calcFrom, TRUE)
            /\ calcFrom' = calculatedNext
       ELSE /\ op' = Op("walk.break", NoId, calcFrom, TRUE)
            /\ calcFrom' = calcFrom

\* one evaluation of while (potentialNextRunTime < now) and of its body
WalkTurn ==
    /\ Walking
    /\ calcFrom < now
    /\ WalkOn(CalculatedNextOf[calcTime]
                 [<<schedules[1].repeat, calcDays>>][calcFrom])
    /\ UNCHANGED <<now, schedules, missedData, clearedLog, alarms, opened,
                   notified, calcTime, calcDays, uiVars, flightVars>>

\* the loop test fails
WalkEnd ==
    /\ Walking
    /\ ~(calcFrom < now)
    /\ op' = Op("walk.end", NoId, calcFrom, TRUE)
    /\ UNCHANGED <<now, schedules, missedData, clearedLog, alarms, opened,
                   notified, calcVars, uiVars, flightVars>>

NextWalk ==
    \/ \E time \in WalkTimes, rule \in WalkRules,
          lastRun \in WalkInstants \cup {Null}, nowT \in WalkInstants :
          WalkBegin(time, rule, lastRun, nowT)
    \/ WalkTurn
    \/ WalkEnd

\* the loop runs in one turn of the event loop: it is never suspended
SpecWalk ==
    InitWalk /\ [][NextWalk]_vars /\ WF_vars(WalkTurn) /\ WF_vars(WalkEnd)

----------------------------------------------------------------------------
(* The engine with two schedules stored, one of them carrying a time       *)
(* string the calculators cannot use.                                      *)

\* the time strings of the faulty schedule: the editor saved with its time
\* field empty, a minute past 59, and no time at all
FaultyTimes ==
    { DateOf(2) \o <<"T">>, <<"0", "9", ":", "6", "0">>, Undefined }

\* the schedule a as it is stored with the time string time
Faulty(f, time) == [Saved(<<"a">>, f) EXCEPT !.time = time]

\* the map() callback of registerAlarms throws: getNextOccurrence of a once
\* schedule threw, and nothing of the storage callback after it runs
MapThrows(orig, nowT) ==
    \E i \in 1..Len(orig) :
        /\ orig[i].repeat = "once"
        /\ getNextOccurrence(orig[i].time, nowT) = Thrown

\* the forEach callback of registerAlarms throws at the schedule: the
\* calculator of a daily schedule, or of the first weekday of a weekly one
CreationThrows(schedule, nowT) ==
    \/ /\ schedule.repeat = "daily"
       /\ getNextOccurrence(schedule.time, nowT) = Thrown
    \/ /\ schedule.repeat = "weekly"
       /\ Len(schedule.dayOfWeek) > 0
       /\ getNextWeeklyOccurrence(schedule.time, schedule.dayOfWeek[1],
                                  nowT) = Thrown

\* schedulesToProcess.forEach inside the clearAll callback: the timers
\* created until a callback throws, which ends the forEach and the
\* clearAll callback with it
RECURSIVE AlarmsUntilThrow(_, _, _, _)
AlarmsUntilThrow(set, processed, i, nowT) ==
    IF i > Len(processed) THEN [alarms |-> set, threw |-> FALSE]
    ELSE IF CreationThrows(processed[i], nowT)
    THEN [alarms |-> set, threw |-> TRUE]
    ELSE AlarmsUntilThrow(AlarmsOfSchedule(set, processed[i], nowT),
                          processed, i + 1, nowT)

\* registerAlarms from clearAll on, the array processed being the result
\* of the map(); the write-back is after the forEach
ClearAndCreate(processed, created) ==
    /\ alarms' = created.alarms
    /\ schedules' =
           IF ~created.threw
              /\ \E i \in 1..Len(schedules) :
                     processed[i].calculatedWhen
                         # schedules[i].calculatedWhen
           THEN processed ELSE schedules
    /\ op' = Op("registerAlarms", NoId,
                IF created.threw THEN Thrown ELSE Null, TRUE)

\* registerAlarms over a Schedule set that may make a calculator throw;
\* op.t is Thrown when the invocation ended in a throw
RegisterAlarmsThrowing ==
    /\ opened' = <<>>
    /\ UNCHANGED <<now, missedData, clearedLog, notified, calcVars, uiVars,
                   flightVars>>
    /\ IF MapThrows(schedules, now)
       THEN /\ op' = Op("registerAlarms", NoId, Thrown, TRUE)
            /\ UNCHANGED <<schedules, alarms>>
       ELSE ClearAndCreate(SchedulesToProcess(schedules, now),
                AlarmsUntilThrow({}, SchedulesToProcess(schedules, now),
                                 1, now))

\* the first turn of the while loop of the schedule throws
WalkThrows(schedule, nowT) ==
    /\ WalkStart(schedule) < nowT
    /\ CalculatedNext(schedule, WalkStart(schedule)) = Thrown

\* checkMissedAlarmsOnStartup over a Schedule set that may make a
\* calculator throw: the throw leaves the for loop and the try block, the
\* catch logs it and the pass is over; op.t is Thrown then
CheckMissedAlarmsThrowing ==
    IF /\ MissedAlarmsEnabled(missedAlarmsEnabled)
       /\ \E i \in 1..Len(schedules) :
              /\ schedules[i].repeat # "once"
              /\ WalkThrows(schedules[i], now)
    THEN /\ op' = Op("checkMissedAlarms", NoId, Thrown, TRUE)
         /\ opened' = <<>>
         /\ notified' = <<>>
         /\ UNCHANGED <<now, schedules, alarms, missedData, clearedLog,
                        calcVars, uiVars, flightVars>>
    ELSE CheckMissedAlarmsOnStartup

\* the timers registered while the time of a was 09:00, and the array
\* stored by the edit that made it faulty; the schedule b is stored first
\* or second
InitFaulty ==
    /\ InitCalcIdle
    /\ \E f \in FormChoices, g \in FormChoices, time \in FaultyTimes,
          first \in BOOLEAN :
          LET r == RegisterResult(
                       << Saved(<<"a">>, f), Saved(<<"b">>, g) >>, 0)
          IN  /\ now = 0
              /\ alarms = r.alarms
              /\ schedules = IF first
                             THEN << Faulty(f, time), r.schedules[2] >>
                             ELSE << r.schedules[2], Faulty(f, time) >>
    /\ missedData = Absent
    /\ clearedLog = <<>>
    /\ opened = <<>>
    /\ notified = <<>>
    /\ op = Op("init", NoId, Null, TRUE)
    /\ missedSchedules = PageClosed
    /\ missedAlarmsEnabled = "absent"
    /\ registering = NoneRegistering
    /\ checking = NoneChecking

NextFaulty ==
    \/ \E t \in PairClock : Tick(t)
    \/ RegisterAlarmsThrowing
    \/ CheckMissedAlarmsThrowing

SpecFaulty == InitFaulty /\ [][NextFaulty]_vars

----------------------------------------------------------------------------
(* The engine with the last timer fire kept on record: calcTime holds the  *)
(* name of the timer that fired last and calcFrom the instant it was set   *)
(* for.                                                                    *)

\* chrome.alarms.onAlarm listener, as OnAlarm, the fire put on record
OnAlarmRecorded(a) ==
    /\ a \in alarms
    /\ a.when <= now
    /\ LET Matches(s) == StartsWith(a.name, s.id)
           matches == SelectSeq(schedules, Matches)
           run     == RunMatches(schedules, <<>>, matches, 1, now)
           schedulesWereModified == Len(matches) > 0
       IN  /\ opened' = run.opened
           /\ IF schedulesWereModified
              THEN StoreSchedules(RegisterResult(run.schedules, now))
              ELSE /\ schedules' = schedules
                   /\ alarms' = AfterFire(alarms, a)
           /\ op' = Op("onAlarm", a.name, a.when, schedulesWereModified)
    /\ calcTime' = a.name
    /\ calcFrom' = a.when
    /\ UNCHANGED <<now, missedData, clearedLog, notified, calcDays,
                   calcResult, uiVars, flightVars>>

NextFired ==
    \/ \E t \in PairClock : Tick(t)
    \/ \E a \in alarms : OnAlarmRecorded(a)
    \/ \E id \in Ids : HandleSaveEdit(id)
    \/ CheckMissedAlarmsOnStartup
    \/ \E k \in ClearableKeys : ClearMissedAlarmEntry(k[1], k[2])

SpecFired == InitPair /\ [][NextFired]_vars

----------------------------------------------------------------------------
(* The loop of the store-changed listener and registerAlarms, from a       *)
(* stored array on, the clock standing still and no page storing anything. *)

\* the values of calculatedWhen a stored schedule may carry: none, the
\* 09:00 of day 0 and the 09:00 of day 1
StoredWhens == {Null, 540, MinutesPerDay + 540}

\* the Schedule sets the loop starts from
QuiesceSets ==
    { [i \in 1..2 |-> [saved[i] EXCEPT !.calculatedWhen = c[i]]] :
          saved \in SavedPairs, c \in [1..2 -> StoredWhens] }

InitQuiesce ==
    /\ InitCalcIdle
    /\ now = 0
    /\ schedules = <<>>
    /\ alarms = {}
    /\ missedData = Absent
    /\ clearedLog = <<>>
    /\ opened = <<>>
    /\ notified = <<>>
    /\ op = Op("init", NoId, Null, TRUE)
    /\ missedSchedules = PageClosed
    /\ missedAlarmsEnabled = "absent"
    /\ registering = NoneRegistering
    /\ checking = NoneChecking

\* the array saved is stored and chrome.storage.onChanged calls
\* registerAlarms; with twice, a call of onInstalled is in flight as well
StoreChanged(saved, twice) ==
    /\ op.name \in {"init", "tick"}
    /\ schedules' = saved
    /\ registering' = IF twice THEN Invoke(Invoke(NoneRegistering))
                      ELSE Invoke(NoneRegistering)
    /\ op' = Op("storeChanged", NoId, Null, TRUE)
    /\ opened' = <<>>
    /\ UNCHANGED <<now, missedData, clearedLog, alarms, notified, calcVars,
                   uiVars, checking>>

\* the callbacks of the invocations in flight
RegisterTurns ==
    \/ \E i \in DOMAIN registering : RegisterGet(i)
    \/ \E i \in DOMAIN registering : RegisterClearAll(i)
    \/ \E i \in DOMAIN registering : RegisterCreate(i)

NextQuiesce ==
    \/ \E t \in PairClock : op.name \in {"init", "tick"} /\ Tick(t)
    \/ \E saved \in QuiesceSets, twice \in BOOLEAN : StoreChanged(saved, twice)
    \/ RegisterTurns

\* a callback that is pending is run by the event loop
SpecQuiesce ==
    InitQuiesce /\ [][NextQuiesce]_vars /\ WF_vars(RegisterTurns)

----------------------------------------------------------------------------
(* Properties.                                                             *)

ScheduleIds(scheds) == { scheds[i].id : i \in 1..Len(scheds) }

\* lastRun a is not above lastRun b, and b is set when a is
LastRunNotLowered(a, b) == a = Null \/ (b # Null /\ b >= a)

EngineReactions ==
    { "onAlarm", "runMissedAlarm", "clearMissedAlarmEntry",
      "clearAllMissedAlarms", "checkMissedAlarms", "registerAlarms", "tick" }

\* C1: for every schedule that stays in the Schedule set, lastRun never
\* decreases and never goes from set to unset across timer fires,
\* runMissedAlarm, clearMissedAlarmEntry and clearAllMissedAlarms requests
\* and reconciliation passes, run one after the other under a
\* non-decreasing clock.
C1_LastRunMonotone ==
    [][ op'.name \in EngineReactions =>
          \A i \in 1..Len(schedules), j \in 1..Len(schedules') :
              schedules[i].id = schedules'[j].id =>
                  LastRunNotLowered(schedules[i].lastRun,
                                    schedules'[j].lastRun) ]_vars

\* a clear request for an occurrence older than the schedule's lastRun was
\* served and lastRun stayed above it
C1_Witness ==
    /\ op.name = "clearMissedAlarmEntry"
    /\ op.ok
    /\ \E i \in 1..Len(schedules) :
           schedules[i].id = op.id /\ schedules[i].lastRun > op.t

FlaggedKeys(list) ==
    { <<list[i].scheduleId, list[i].missedRunTime>> :
        i \in { k \in 1..Len(list) : list[k].hasBeenNotified } }

\* C2: a pending entry whose hasBeenNotified is true is in the notification
\* batch of no later reconciliation pass, and a pass that detects no entry
\* beyond the flagged pending ones raises no notification at all.
C2_NoRenotification ==
    [][ op'.name = "checkMissedAlarms" =>
          /\ KeysOf(notified') \cap FlaggedKeys(missedData.list) = {}
          /\ (KeysOf(missedData'.list) \subseteq FlaggedKeys(missedData.list)
                 => notified' = <<>>) ]_vars

\* a pass kept a flagged entry pending and raised no notification
C2_Witness ==
    /\ op.name = "checkMissedAlarms"
    /\ notified = <<>>
    /\ FlaggedKeys(missedData.list) # {}

\* tombstones that a pass at instant nowT retains
RetainedKeys(log, nowT) ==
    { <<log[i].scheduleId, log[i].missedRunTime>> :
        i \in { k \in 1..Len(log) : nowT - log[k].clearedAt < ThirtyDays } }

\* C3: after (scheduleId, t) was cleared, no reconciliation pass within the
\* retention window persists a pending entry with that key, even when the
\* walk from lastRun still computes t as missed.
C3_TombstoneSuppression ==
    [][ op'.name = "checkMissedAlarms" =>
          KeysOf(missedData'.list) \cap RetainedKeys(clearedLog, now) = {}
      ]_vars

\* a pass ran while a retained tombstone named an occurrence that the walk
\* still computes as missed
C3_Witness ==
    /\ op.name = "checkMissedAlarms"
    /\ KeysOf(MissedAccumulator(schedules, 1, now))
           \cap RetainedKeys(clearedLog, now) # {}

\* C4: registerAlarms invoked twice in succession, at the same instant and
\* with no other change of the Schedule set in between, leaves the same
\* timer set (names, fire instants, periods) after the second call as after
\* the first.
C4_RegisterIdempotent ==
    [][ (op'.name = "registerAlarms" /\ op'.t = 1) => alarms' = alarms
      ]_vars

\* a second registerAlarms in succession ran with timers registered
C4_Witness ==
    /\ op.name = "registerAlarms"
    /\ op.t = 1
    /\ \E a \in alarms : a.period = 0
    /\ now > 0

\* the instant new Date(timeStr) denotes for a stored "1970-01-ddTHH:mm"
AnchorInstant(timeStr) ==
    LET day == parseInt(SubSeq(timeStr, 9, 10)).val
        p   == ParseTime(timeStr)
    IN  (day - 1) * MinutesPerDay + p.h * 60 + p.m

AnchorPassedNeverRun(schedule, nowT) ==
    /\ schedule.repeat = "once"
    /\ AnchorInstant(schedule.time) < nowT
    /\ ~Truthy(schedule.lastRun)

\* C5: for a once schedule whose anchor instant is in the past and whose
\* lastRun is unset, registerAlarms removes calculatedWhen and creates no
\* timer for the schedule.
C5_OnceInPastCleared ==
    [][ op'.name = "registerAlarms" =>
          \A i \in 1..Len(schedules) :
              AnchorPassedNeverRun(schedules[i], now) =>
                  /\ schedules'[i].calculatedWhen = Null
                  /\ ~\E a \in alarms' : a.name = schedules[i].id ]_vars

\* C6: a once schedule whose anchor instant has passed with lastRun unset
\* is reported as a MissedOccurrence by the next reconciliation pass, also
\* when registerAlarms ran after the anchor instant and before the pass.
C6_OnceInPastReported ==
    [][ op'.name = "checkMissedAlarms" =>
          \A i \in 1..Len(schedules) :
              AnchorPassedNeverRun(schedules[i], now) =>
                  \E e \in Range(missedData'.list) :
                      e.scheduleId = schedules[i].id ]_vars

\* the bookkeeping of a run of the schedule at index i: every URL opened,
\* then the schedule deleted when once, else lastRun = now
RunBookkeeping(i) ==
    /\ \A k \in 1..Len(schedules[i].urls) :
           schedules[i].urls[k] \in Range(opened')
    /\ IF schedules[i].repeat = "once"
       THEN schedules[i].id \notin ScheduleIds(schedules')
       ELSE \E j \in 1..Len(schedules') :
                /\ schedules'[j].id = schedules[i].id
                /\ schedules'[j].lastRun = now

RunByEngine(i) ==
    \/ op'.name = "onAlarm" /\ StartsWith(op'.id, schedules[i].id)
    \/ op'.name = "runMissedAlarm" /\ op'.id = schedules[i].id

RunByUser(i) == op'.name = "runNow" /\ op'.id = schedules[i].id

\* C7 as claimed: every run, whether by a timer fire, a runMissedAlarm
\* request or a run now of the context menu or dashboard, opens every URL,
\* sets lastRun to now and deletes the schedule when repeat = once.
C7_EveryRunBookkeeps ==
    [][ \A i \in 1..Len(schedules) :
          (RunByEngine(i) \/ RunByUser(i)) => RunBookkeeping(i) ]_vars

\* C7 as amended: a run by a timer fire or a runMissedAlarm request opens
\* every URL, sets lastRun to now and deletes the schedule when once; a run
\* now of the context menu or dashboard opens every URL and leaves the
\* Schedule set as it was.
C7_EngineRunBookkeeps ==
    [][ \A i \in 1..Len(schedules) :
          /\ RunByEngine(i) => RunBookkeeping(i)
          /\ RunByUser(i) =>
                 /\ opened' = schedules[i].urls
                 /\ schedules' = schedules ]_vars

\* a timer fire ran a once schedule: its URLs were opened and it is gone
C7_Witness ==
    /\ op.name = "onAlarm"
    /\ op.ok
    /\ opened = <<"u1", "u2">>
    /\ schedules = <<>>

\* C8: clearMissedAlarmEntry for a pending (scheduleId, t) sets lastRun to
\* t when t is above lastRun or lastRun is unset and leaves it otherwise,
\* removes exactly that entry from the pending list and appends the
\* tombstone (scheduleId, t, clearedAt = now); every tombstone stays in the
\* log while it is less than thirty days old.
C8_ClearEntry ==
    [][ /\ (op'.name = "clearMissedAlarmEntry"
            /\ <<op'.id, op'.t>> \in KeysOf(missedData.list)) =>
              /\ \A i \in 1..Len(schedules) :
                     schedules[i].id = op'.id =>
                         schedules'[i].lastRun =
                             IF schedules[i].lastRun = Null
                                \/ op'.t > schedules[i].lastRun
                             THEN op'.t ELSE schedules[i].lastRun
              /\ KeysOf(missedData'.list) =
                     KeysOf(missedData.list) \ {<<op'.id, op'.t>>}
              /\ Len(missedData'.list) = Len(missedData.list) - 1
              /\ [scheduleId |-> op'.id, missedRunTime |-> op'.t,
                  clearedAt |-> now] \in Range(clearedLog')
        /\ \A c \in Range(clearedLog) :
               now' - c.clearedAt < ThirtyDays => c \in Range(clearedLog')
      ]_vars

\* a clear request was served while another schedule's entry stayed
\* pending and the log held a tombstone one minute short of thirty days:
\* lastRun stands at the cleared instant and both tombstones are in the log
C8_Witness ==
    /\ op.name = "clearMissedAlarmEntry"
    /\ op.ok
    /\ [scheduleId |-> op.id, missedRunTime |-> op.t, clearedAt |-> now]
           \in Range(clearedLog)
    /\ \E c \in Range(clearedLog) : now - c.clearedAt = ThirtyDays - 1
    /\ \E e \in Range(missedData.list) : e.scheduleId # op.id
    /\ \E i \in 1..Len(schedules) :
           schedules[i].id = op.id /\ schedules[i].lastRun = op.t

\* weekday of instant t, Monday = 1 .. Sunday = 7 (1970-01-01: Thursday)
IsoWeekday(t) == (((t \div MinutesPerDay) + 3) % 7) + 1

\* the occurrences of a recurring schedule strictly between its lastRun
\* (or the epoch) and nowT
OccurrencesBetween(schedule, nowT) ==
    LET p  == ParseTime(schedule.time)
        lo == IF Truthy(schedule.lastRun) THEN schedule.lastRun ELSE 0
    IN  { t \in { d * MinutesPerDay + p.h * 60 + p.m :
                    d \in 0..(nowT \div MinutesPerDay) } :
            /\ lo < t
            /\ t < nowT
            /\ \/ schedule.repeat = "daily"
               \/ IsoWeekday(t) \in Range(schedule.dayOfWeek) }

Latest(set) == CHOOSE t \in set : \A u \in set : u <= t

\* C9: for a daily or weekly schedule with a valid time one pass records at
\* most one MissedOccurrence, and it is the latest occurrence strictly
\* between lastRun (or the epoch) and now; that occurrence is recorded
\* unless a retained tombstone names it.
C9_LatestMissedOnly ==
    [][ op'.name = "checkMissedAlarms" =>
          \A i \in 1..Len(schedules) :
              (schedules[i].repeat # "once"
               /\ ParseTime(schedules[i].time).ok) =>
                  LET list == missedData'.list
                      mine == { k \in 1..Len(list) :
                                  list[k].scheduleId = schedules[i].id }
                      occ  == OccurrencesBetween(schedules[i], now)
                  IN  /\ Cardinality(mine) <= 1
                      /\ \A k \in mine :
                             /\ occ # {}
                             /\ list[k].missedRunTime = Latest(occ)
                      /\ (occ # {}
                          /\ <<schedules[i].id, Latest(occ)>>
                                 \notin RetainedKeys(clearedLog, now))
                             => mine # {} ]_vars

\* a pass recorded the latest of several missed occurrences of a schedule
C9_Witness ==
    /\ op.name = "checkMissedAlarms"
    /\ \E i \in 1..Len(schedules), e \in Range(missedData.list) :
           /\ schedules[i].repeat # "once"
           /\ e.scheduleId = schedules[i].id
           /\ Cardinality(OccurrencesBetween(schedules[i], now)) >= 2
           /\ e.missedRunTime = Latest(OccurrencesBetween(schedules[i], now))

\* C10: for every valid hour:minute and every reference instant from,
\* getNextOccurrenceFrom returns an instant strictly after from, at that
\* hour:minute, on from's date or the next; when from is an occurrence
\* instant the result is the occurrence one day later.
C10_NextDaily ==
    \A hm \in CalcHM, iso \in BOOLEAN :
        (op.name = "getNextOccurrenceFrom"
         /\ calcTime = TimeString(hm[1], hm[2], iso)) =>
            /\ calcResult > calcFrom
            /\ calcResult % MinutesPerDay = hm[1] * 60 + hm[2]
            /\ (calcResult \div MinutesPerDay) - (calcFrom \div MinutesPerDay)
                   \in {0, 1}
            /\ (calcFrom % MinutesPerDay = hm[1] * 60 + hm[2]
                   => calcResult = calcFrom + MinutesPerDay)

\* the calculator ran with from exactly on the 09:00 occurrence
C10_Witness ==
    /\ op.name = "getNextOccurrenceFrom"
    /\ calcTime = TimeString(9, 0, FALSE)
    /\ calcFrom % MinutesPerDay = 540
    /\ calcResult = calcFrom + MinutesPerDay

\* the instants at hour:minute hm on one of the weekdays days (Monday = 1 ..
\* Sunday = 7) strictly after from, within the eight dates from from's on
WeeklyInstantsAfter(hm, days, from) ==
    { t \in { ((from \div MinutesPerDay) + k) * MinutesPerDay
                  + hm[1] * 60 + hm[2] : k \in 0..7 } :
        t > from /\ IsoWeekday(t) \in Range(days) }

Earliest(set) == CHOOSE t \in set : \A u \in set : t <= u

\* C11: for every valid hour:minute, every non-empty set of weekdays in
\* 1..7 and every reference instant from, getNextWeeklyOccurrenceFrom
\* returns the earliest instant strictly after from that falls on one of
\* the weekdays at that hour:minute; for the empty set it returns the
\* failure value.
C11_NextWeekly ==
    \A hm \in CalcHM, iso \in BOOLEAN :
        (op.name = "getNextWeeklyOccurrenceFrom"
         /\ calcTime = TimeString(hm[1], hm[2], iso)) =>
            IF calcDays = <<>> THEN calcResult = Null
            ELSE calcResult =
                     Earliest(WeeklyInstantsAfter(hm, calcDays, calcFrom))

\* the calculator ran at 09:00 of a Saturday for Thursday, Friday and
\* Saturday, and answered with the Thursday five days later
C11_Witness ==
    /\ op.name = "getNextWeeklyOccurrenceFrom"
    /\ calcTime = TimeString(9, 0, FALSE)
    /\ calcDays = <<6, 5, 4>>
    /\ calcFrom = 2 * MinutesPerDay + 540
    /\ calcResult = 7 * MinutesPerDay + 540

CalculatorNames ==
    {"getNextOccurrenceFrom", "getNextWeeklyOccurrenceFrom",
     "getNextOccurrence", "getNextWeeklyOccurrence"}

TimersOf(id) == { a \in alarms : StartsWith(a.name, id) }

\* C12: for every time string that cannot be parsed (malformed, out of
\* range, empty or missing) each calculator returns the failure value
\* without throwing, and registerAlarms creates no timer for the schedule
\* that carries it.
C12_InvalidTimeFails ==
    /\ (op.name \in CalculatorNames
            /\ calcTime \in CalcInvalidTimes \cup {Undefined})
          => calcResult = Null
    /\ (op.name = "importSchedule"
            /\ calcTime \in CalcInvalidTimes \cup {Undefined})
          => TimersOf(ImportedId) = {}

ImportedWeekly ==
    /\ op.name = "importSchedule" /\ op.ok
    /\ schedules[Len(schedules)].repeat = "weekly"

WeeklyTimer(id, hm, dow, nowT) ==
    [name   |-> id \o <<"-", Digits[dow + 1]>>,
     when   |-> Earliest(WeeklyInstantsAfter(hm, <<dow>>, nowT)),
     period |-> MinutesPerWeek]

\* C13: for a weekly schedule with k weekdays and a valid time,
\* registerAlarms creates exactly k periodic timers, named from the id and
\* the weekday, each first firing at the earliest instant on its weekday
\* at hh:mm strictly after now, with a period of 7 days.
C13_WeeklyTimers ==
    \A hm \in CalcHM, iso \in BOOLEAN :
        (ImportedWeekly /\ calcTime = TimeString(hm[1], hm[2], iso)) =>
            /\ TimersOf(ImportedId) =
                   { WeeklyTimer(ImportedId, hm, dow, now) :
                       dow \in Range(calcDays) }
            /\ Cardinality(TimersOf(ImportedId)) = Len(calcDays)

C13_Witness ==
    /\ ImportedWeekly
    /\ calcTime = TimeString(9, 0, TRUE)
    /\ calcDays = <<6, 5, 4>>
    /\ now = 2 * MinutesPerDay + 541
    /\ TimersOf(ImportedId) =
           { [name |-> <<"b", "-", "6">>, when |-> 9 * MinutesPerDay + 540,
              period |-> MinutesPerWeek],
             [name |-> <<"b", "-", "5">>, when |-> 8 * MinutesPerDay + 540,
              period |-> MinutesPerWeek],
             [name |-> <<"b", "-", "4">>, when |-> 7 * MinutesPerDay + 540,
              period |-> MinutesPerWeek] }

Pass == op'.name = "checkMissedAlarms"

\* the once schedules of the Schedule set whose occurrence is not in the
\* tombstone log log
OnceUncleared(log) ==
    { i \in 1..Len(schedules) :
        /\ schedules[i].repeat = "once"
        /\ <<schedules[i].id, schedules[i].calculatedWhen>> \notin KeysOf(log) }

PendingIds(data) == { data.list[i].scheduleId : i \in 1..Len(data.list) }

\* C14 as stated: a pass reports a once schedule as missed if and only if
\* calculatedWhen is set, calculatedWhen <= now, and lastRun is unset or
\* below calculatedWhen.
C14_OnceMissedAtOrBeforeNow ==
    [][Pass =>
        \A i \in OnceUncleared(clearedLog') :
            schedules[i].id \in PendingIds(missedData')
              <=> /\ schedules[i].calculatedWhen # Null
                  /\ schedules[i].calculatedWhen <= now
                  /\ (schedules[i].lastRun = Null
                      \/ schedules[i].lastRun < schedules[i].calculatedWhen)]_vars

\* C14 amended: a pass reports a once schedule as missed if and only if
\* calculatedWhen is set, calculatedWhen is strictly below now, and lastRun
\* is unset or below calculatedWhen.
C14_OnceMissedBeforeNow ==
    [][Pass =>
        \A i \in OnceUncleared(clearedLog') :
            schedules[i].id \in PendingIds(missedData')
              <=> /\ schedules[i].calculatedWhen # Null
                  /\ schedules[i].calculatedWhen < now
                  /\ (schedules[i].lastRun = Null
                      \/ schedules[i].lastRun < schedules[i].calculatedWhen)]_vars

C14_Witness ==
    /\ op.name = "checkMissedAlarms"
    /\ \E i \in 1..Len(schedules) :
          /\ schedules[i].repeat = "once"
          /\ schedules[i].lastRun = Null
          /\ schedules[i].calculatedWhen # Null
          /\ schedules[i].calculatedWhen < now
          /\ <<schedules[i].id, schedules[i].calculatedWhen>>
                \in KeysOf(missedData.list)

\* the pending keys a pass persists that were not flagged pending before it
FreshKeys(before, after) == KeysOf(after) \ FlaggedKeys(before)

\* C15: in every pass where a surviving entry has hasBeenNotified = false,
\* one notification is raised whose batch is exactly those entries, and
\* each of them is persisted with hasBeenNotified = true; in a pass with no
\* such entry no notification is raised.
C15_OneBatchPerPass ==
    [][Pass =>
        /\ KeysOf(notified') = FreshKeys(missedData.list, missedData'.list)
        /\ Cardinality(KeysOf(notified')) = Len(notified')
        /\ FlaggedKeys(missedData'.list) = KeysOf(missedData'.list)]_vars

\* a pass raised one notification for two entries and flagged both
C15_Witness ==
    /\ op.name = "checkMissedAlarms"
    /\ Len(notified) = 2
    /\ Len(missedData.list) = 2
    /\ FlaggedKeys(missedData.list) = KeysOf(notified)

RanFromPage == op'.name = "handleRunSchedule" /\ op'.ok

\* C16: after a successful runMissedAlarm for the pending entry
\* (scheduleId, t), that entry is no longer in the persisted pending list,
\* and every other entry that was persisted pending at that moment still is.
C16_RunRemovesOnlyItsEntry ==
    [][RanFromPage =>
        /\ <<op'.id, op'.t>> \notin KeysOf(missedData'.list)
        /\ KeysOf(missedData.list) \ { <<op'.id, op'.t>> }
              \subseteq KeysOf(missedData'.list)]_vars

\* the pending keys a pass that runs persists
PassOutcomeKeys ==
    KeysOf(ActiveMissed(UniqueMissed(MissedAccumulator(schedules, 1, now)),
                        pruneClearedMissedAlarms(clearedLog, now)))

\* C17: with the enable flag false a pass changes nothing in the pending
\* list or the tombstone log and raises no notification; with the flag
\* absent from storage the pass runs as it does with the flag true.
C17_FlagGatesPass ==
    [][Pass =>
        /\ missedAlarmsEnabled = "false" =>
              /\ UNCHANGED <<missedData, clearedLog>>
              /\ notified' = <<>>
        /\ (missedAlarmsEnabled \in {"absent", "true"} /\ Len(schedules) > 0) =>
              /\ KeysOf(missedData'.list) = PassOutcomeKeys
              /\ clearedLog' = pruneClearedMissedAlarms(clearedLog, now)]_vars

\* a pass skipped by the flag while an occurrence was missed, nothing pending
C17_Witness ==
    /\ op.name = "checkMissedAlarms"
    /\ ~op.ok
    /\ missedAlarmsEnabled = "false"
    /\ missedData = Absent
    /\ PassOutcomeKeys # {}

NoneInFlight == IdleSlots(registering) = DOMAIN registering

TimerNames == { a.name : a \in alarms }

\* C18: whatever the interleaving of two or more registerAlarms
\* invocations, once all of them have finished the timer set holds no two
\* timers of one name, equals the timer set of a single invocation over
\* the Schedule set then stored, and holds no timer of a schedule that is
\* not stored.
C18_InterleavedRegistrations ==
    NoneInFlight =>
        /\ Cardinality(TimerNames) = Cardinality(alarms)
        /\ alarms = RegisterResult(schedules, now).alarms
        /\ \A a \in alarms :
              \E id \in ScheduleIds(schedules) : StartsWith(a.name, id)

\* C19: at most one reconciliation pass is in flight at any time: the
\* events that start a pass (startup, install, update) never lead to two
\* passes whose storage reads and writes overlap.
C19_OnePassInFlight == Cardinality(InFlight(checking)) <= 1

\* a pass ends in which a storage call was rejected
RejectedPassEnds ==
    /\ op'.name = "checkMissedAlarms.end"
    /\ (~op'.ok \/ checking[op'.t].rejected)

\* C20: a pass with a rejected storage read or write leaves the pending
\* list, the tombstone log and the Schedule set as they were before the
\* pass, and has raised no notification, so that the next pass with working
\* storage detects the occurrence and notifies for it exactly once overall.
C20_RejectedPassChangesNothing ==
    [][RejectedPassEnds =>
        /\ missedData' = checking[op'.t].before.missedData
        /\ clearedLog' = checking[op'.t].before.clearedLog
        /\ schedules' = checking[op'.t].before.schedules
        /\ ~checking[op'.t].raised]_vars

RequestNames == {"runMissedAlarm", "clearMissedAlarmEntry", "clearAllMissedAlarms"}

\* a runMissedAlarm request named a schedule that is not stored
RunOfUnknown ==
    /\ op'.name = "runMissedAlarm"
    /\ op'.id \notin ScheduleIds(schedules)

MissedTimesOf(id) ==
    { missedData.list[j].missedRunTime :
        j \in { k \in 1..Len(missedData.list) :
                  missedData.list[k].scheduleId = id } }

\* max(lastRun, every missed run time pending for the schedule)
MaxWithMissed(schedule) ==
    LET times == MissedTimesOf(schedule.id) \cup
                 (IF schedule.lastRun = Null THEN {} ELSE {schedule.lastRun})
    IN  IF times = {} THEN Null
        ELSE CHOOSE m \in times : \A x \in times : x <= m

ClearedAll == op'.name = "clearAllMissedAlarms"

\* C22: clearAllMissedAlarms sets lastRun of the schedule of every pending
\* entry to max(current lastRun, missedRunTime), removes the whole pending
\* list and appends one tombstone per cleared entry; with an empty pending
\* list it answers success and changes no persisted state.
C22_ClearAll ==
    [][ClearedAll =>
         /\ op'.ok
         /\ Len(missedData.list) = 0 =>
               /\ schedules' = schedules /\ alarms' = alarms
               /\ missedData' = missedData /\ clearedLog' = clearedLog
         /\ Len(missedData.list) > 0 =>
               /\ missedData' = Absent
               /\ Len(schedules') = Len(schedules)
               /\ \A i \in 1..Len(schedules) :
                     /\ schedules'[i].id = schedules[i].id
                     /\ schedules'[i].lastRun = MaxWithMissed(schedules[i])
               /\ Len(clearedLog') =
                     Len(pruneClearedMissedAlarms(clearedLog, now))
                       + Len(missedData.list)
               /\ \A j \in 1..Len(missedData.list) :
                     \E k \in 1..Len(clearedLog') :
                        /\ k > Len(clearedLog') - Len(missedData.list)
                        /\ SameKey(clearedLog'[k],
                                   missedData.list[j].scheduleId,
                                   missedData.list[j].missedRunTime)
                        /\ clearedLog'[k].clearedAt = now]_vars

\* clearAllMissedAlarms cleared an entry older than its schedule's lastRun,
\* and that lastRun was kept
C22_Witness ==
    /\ op.name = "clearAllMissedAlarms"
    /\ missedData = Absent
    /\ \E k \in 1..Len(clearedLog), i \in 1..Len(schedules) :
          /\ clearedLog[k].clearedAt = now
          /\ clearedLog[k].scheduleId = schedules[i].id
          /\ schedules[i].lastRun # Null
          /\ schedules[i].lastRun > clearedLog[k].missedRunTime

ClearedFromPage ==
    op'.name \in {"handleClearSpecificSchedule", "handleClearAllMissed"}

\* the keys that left the pending list in this step
KeysLeft == KeysOf(missedData.list) \ KeysOf(missedData'.list)

\* C23: every entry the user cleared from the page (one or all) has, once it
\* left the pending list, a tombstone with its key in the log, and its
\* schedule's lastRun is at least its missedRunTime.
C23_PageClearsThroughEngine ==
    [][ClearedFromPage =>
         \A k \in KeysLeft :
            /\ k \in KeysOf(clearedLog')
            /\ \A i \in 1..Len(schedules') :
                  schedules'[i].id = k[1] =>
                     /\ schedules'[i].lastRun # Null
                     /\ schedules'[i].lastRun >= k[2]]_vars

\* C24: when reactions interleave at their storage calls, the persisted
\* lastRun of a schedule never decreases, whichever reaction writes.
C24_LastRunNeverDecreasesInterleaved ==
    [][\A i \in 1..Len(schedules), j \in 1..Len(schedules') :
          schedules[i].id = schedules'[j].id =>
             LastRunNotLowered(schedules[i].lastRun, schedules'[j].lastRun)]_vars

\* C25: a once schedule the onAlarm listener deleted after it fired is not
\* put back into the persisted Schedule set by the write of a registerAlarms
\* invocation, so it cannot fire again.
C25_DeletedOnceStaysDeleted ==
    [][op'.name = "registerAlarms.create" =>
          ScheduleIds(schedules') \subseteq ScheduleIds(schedules)]_vars

\* a once schedule whose lastRun is at or after its anchor instant
RanAtOrAfterAnchor(schedule) ==
    /\ schedule.repeat = "once"
    /\ Truthy(schedule.lastRun)
    /\ schedule.lastRun >= AnchorInstant(schedule.time)

\* C26: a timer of a once schedule has calculatedWhen in the future of the
\* registerAlarms that created it and strictly after lastRun, so a once
\* schedule whose lastRun is at or after its anchor instant has no timer
\* after any registerAlarms that ran since lastRun was stored.
C26_RanOnceGetsNoTimer ==
    \A i \in 1..Len(schedules) :
        /\ (schedules[i].repeat = "once" /\ TimersOf(schedules[i].id) # {}) =>
              /\ Truthy(schedules[i].calculatedWhen)
              /\ ~Truthy(schedules[i].lastRun)
                    \/ schedules[i].lastRun < schedules[i].calculatedWhen
        /\ RanAtOrAfterAnchor(schedules[i]) => TimersOf(schedules[i].id) = {}

\* C27: after every completed registerAlarms no persisted schedule with
\* repeat other than once carries calculatedWhen, and no persisted once
\* schedule carries a calculatedWhen at or before its lastRun.
C27_CalculatedWhenAfterRegister ==
    \A i \in 1..Len(schedules) :
        /\ schedules[i].repeat # "once" =>
              /\ schedules[i].calculatedWhen = Null
              /\ RegisterResult(
                     <<[schedules[i] EXCEPT !.calculatedWhen = now + 1]>>,
                     now).schedules[1].calculatedWhen = Null
        /\ (schedules[i].repeat = "once" /\ schedules[i].lastRun # Null
               /\ schedules[i].calculatedWhen # Null)
             => schedules[i].calculatedWhen > schedules[i].lastRun

\* registerAlarms ran after a clear stored lastRun of a once schedule at
\* the calculatedWhen it carried
C27_Witness ==
    /\ op.name = "clearMissedAlarmEntry"
    /\ \E i \in 1..Len(schedules) :
          /\ schedules[i].id = op.id
          /\ schedules[i].repeat = "once"
          /\ schedules[i].lastRun = op.t
          /\ schedules[i].calculatedWhen # Null

\* a pass that went as far as the merge
MergingPass == Pass /\ op'.ok /\ Len(schedules) > 0

\* the persisted entry of the key of e said the key was notified
CarriedNotified(e) ==
    \E p \in Range(missedData.list) :
        SameKey(p, e.scheduleId, e.missedRunTime) /\ p.hasBeenNotified

\* C28: the merge of a pass gives a pending list with no two entries of
\* the same key, every entry starts from the hasBeenNotified of the entry
\* persisted under its key, or from false when there is none (so exactly
\* those entries are notified now), and the list is persisted when it is
\* not empty and its key removed when it is.
C28_Merge ==
    [][MergingPass =>
         /\ \A i, j \in 1..Len(missedData'.list) :
               SameKey(missedData'.list[i], missedData'.list[j].scheduleId,
                       missedData'.list[j].missedRunTime) => i = j
         /\ KeysOf(missedData'.list) =
               KeysOf(ActiveMissed(MissedAccumulator(schedules, 1, now),
                                   clearedLog'))
         /\ \A e \in Range(missedData'.list) :
               /\ (<<e.scheduleId, e.missedRunTime>> \in KeysOf(notified'))
                     <=> ~CarriedNotified(e)
               /\ e.hasBeenNotified
         /\ missedData'.present <=> Len(missedData'.list) > 0]_vars

\* a pass persisted an entry carried from the pass before next to a new one
C28_Witness ==
    /\ op.name = "checkMissedAlarms"
    /\ op.ok
    /\ Len(missedData.list) = 2
    /\ Len(notified) = 1

\* no tombstone of the log is thirty days old or older at instant t
AllYounger(log, t) == \A c \in Range(log) : t - c.clearedAt < ThirtyDays

\* C29 as stated: after every pass, the passes that end early because the
\* detection is disabled or the Schedule set is empty included, the
\* persisted tombstone log holds no entry thirty days old or older.
C29_PrunedAfterEveryPass ==
    [][Pass => AllYounger(clearedLog', now)]_vars

\* C29 amended: a pass that gets past the enable flag and finds schedules
\* leaves no tombstone thirty days old or older in the log; a pass that
\* ends early leaves the log as it was.
C29_PrunedAfterFullPass ==
    [][Pass =>
         IF op'.ok /\ Len(schedules) > 0
         THEN AllYounger(clearedLog', now)
         ELSE clearedLog' = clearedLog]_vars

\* a full pass has run thirty days after an entry was cleared, and its
\* tombstone is gone
C29_Witness ==
    /\ op.name = "checkMissedAlarms"
    /\ op.ok
    /\ now = ThirtyDays + 541
    /\ \E i \in 1..Len(schedules) :
          /\ schedules[i].lastRun = 540
          /\ <<schedules[i].id, 540>> \notin KeysOf(clearedLog)
          /\ <<schedules[i].id, 540>> \notin KeysOf(missedData.list)

\* C30: the tombstone log is append-only apart from the thirty-day
\* pruning: no clear request, no pass and no rejected storage read removes
\* a tombstone that is less than thirty days old.
C30_TombstonesAppendOnly ==
    [][\A c \in Range(clearedLog) :
          now' - c.clearedAt < ThirtyDays => c \in Range(clearedLog')]_vars

\* C31: for every valid time, every weekday d and every instant, the live
\* calculators agree with the reconciliation calculators:
\* getNextOccurrence(time) at now is getNextOccurrenceFrom(time, now), and
\* getNextWeeklyOccurrence(time, d) at now is
\* getNextWeeklyOccurrenceFrom(time, [d], now).
C31_LiveAgreesWithFrom ==
    calcTime \in CalcValidTimes =>
        /\ op.name = "getNextOccurrence" =>
              calcResult = getNextOccurrenceFrom(calcTime, calcFrom)
        /\ op.name = "getNextOccurrenceFrom" =>
              calcResult = getNextOccurrence(calcTime, calcFrom)
        /\ op.name = "getNextWeeklyOccurrence" =>
              \E d \in 1..7 :
                 calcResult =
                     getNextWeeklyOccurrenceFrom(calcTime, <<d>>, calcFrom)
        /\ \A d \in 0..7 :
              getNextWeeklyOccurrence(calcTime, d, calcFrom) =
                  getNextWeeklyOccurrenceFrom(calcTime, <<d>>, calcFrom)

\* the live daily calculator ran at the very minute of the occurrence and
\* answered with the occurrence one day later
C31_Witness ==
    /\ op.name = "getNextOccurrence"
    /\ calcTime = TimeString(14, 30, TRUE)
    /\ calcFrom % MinutesPerDay = 870
    /\ calcResult = calcFrom + MinutesPerDay

WalkOver == op.name \in {"walk.end", "walk.break", "walk.threw"}

\* a turn of the walk computed a candidate
Candidate == op'.name \in {"walk.turn", "walk.break"} /\ Truthy(calcResult')

\* C32: the walk of a daily or weekly schedule terminates for every
\* lastRun and now: each candidate is strictly after the instant it was
\* computed from, the walk goes on from a candidate before now, and it
\* stops at the first candidate at or after now or that fails to compute.
C32_WalkTerminates ==
    /\ [][/\ Candidate => calcResult' > calcFrom
          /\ op'.name = "walk.turn" =>
                (calcResult' < now /\ calcFrom' = calcResult')
          /\ op'.name = "walk.break" =>
                (~Truthy(calcResult') \/ calcResult' >= now)]_vars
    /\ (op.name = "walk.begin") ~> WalkOver

\* the walk started on an occurrence instant, took two candidates and
\* stopped at the third
C32_Witness ==
    /\ op.name = "walk.break"
    /\ schedules[1].lastRun = 540
    /\ schedules[1].repeat = "daily"
    /\ calcFrom = 2 * MinutesPerDay + 540
    /\ calcResult = 3 * MinutesPerDay + 540

\* the timers whose name starts with the id, after the reaction
TimersAfter(id) == { a \in alarms' : StartsWith(a.name, id) }

\* the schedule is the one with the unusable time string
IsFaulty(schedule) == schedule.time \in FaultyTimes

\* C33: a schedule whose time string is invalid or missing affects only
\* itself: registerAlarms still clears the old timers and creates the
\* timers of every other schedule, and a reconciliation pass still detects
\* and persists the missed occurrence of every other schedule.
C33_FaultyScheduleAlone ==
    [][\A i \in 1..Len(schedules) :
          /\ op'.name = "registerAlarms" =>
                IF IsFaulty(schedules[i])
                THEN TimersAfter(schedules[i].id) = {}
                ELSE TimersAfter(schedules[i].id)
                         = AlarmsOfSchedule({},
                               ProcessSchedule(schedules[i], now), now)
          /\ (Pass /\ ~IsFaulty(schedules[i])) =>
                KeysOf(MissedOfSchedule(schedules[i], now))
                    \subseteq KeysOf(missedData'.list)]_vars

\* C33 for a time string that is there but invalid: the same statement,
\* for the Schedule sets in which every schedule has a time string
C33_InvalidStringAlone ==
    [][(\A j \in 1..Len(schedules) : schedules[j].time # Undefined) =>
       \A i \in 1..Len(schedules) :
          /\ op'.name = "registerAlarms" =>
                IF IsFaulty(schedules[i])
                THEN TimersAfter(schedules[i].id) = {}
                ELSE TimersAfter(schedules[i].id)
                         = AlarmsOfSchedule({},
                               ProcessSchedule(schedules[i], now), now)
          /\ (Pass /\ ~IsFaulty(schedules[i])) =>
                KeysOf(MissedOfSchedule(schedules[i], now))
                    \subseteq KeysOf(missedData'.list)]_vars

\* a pass over an invalid time string has persisted the missed occurrence
\* of the other schedule, whose timer is registered
C33_Witness ==
    /\ op.name = "checkMissedAlarms"
    /\ op.t # Thrown
    /\ \E i \in 1..Len(schedules) :
           /\ schedules[i].time = DateOf(2) \o <<"T">>
           /\ schedules[i].repeat = "daily"
    /\ TimersOf(<<"a">>) = {}
    /\ TimersOf(<<"b">>) # {}
    /\ \E e \in Range(missedData.list) : e.scheduleId = <<"b">>

\* C34: saving an edit of an existing schedule keeps its id and does not
\* erase or lower its lastRun: the schedule stored after the edit has the
\* same id and the same lastRun as before the edit.
C34_EditKeepsIdAndLastRun ==
    [][op'.name = "handleSaveEdit" =>
          /\ Len(schedules') = Len(schedules)
          /\ \A i \in 1..Len(schedules) :
                 /\ schedules'[i].id = schedules[i].id
                 /\ schedules'[i].lastRun = schedules[i].lastRun]_vars

\* the pass went past the enable flag and ran to its end
FullPass == Pass /\ op'.ok

\* the schedule of the id in the array the pass read has not run at or
\* after t
NotRunSince(id, t) ==
    \E i \in 1..Len(schedules) :
        /\ schedules[i].id = id
        /\ ~Truthy(schedules[i].lastRun) \/ schedules[i].lastRun < t

\* C35: after every reconciliation pass that runs to its end, each
\* persisted pending entry refers to a schedule id of the Schedule set the
\* pass read, and its missedRunTime is before now and after the lastRun of
\* that schedule; an entry whose schedule was deleted or whose lastRun
\* advanced to or past it is gone.
C35_PendingAfterPass ==
    [][FullPass =>
          /\ \A e \in Range(missedData'.list) :
                 /\ e.missedRunTime < now
                 /\ NotRunSince(e.scheduleId, e.missedRunTime)
          /\ \A p \in Range(missedData.list) :
                 ~NotRunSince(p.scheduleId, p.missedRunTime) =>
                     <<p.scheduleId, p.missedRunTime>>
                         \notin KeysOf(missedData'.list)]_vars

\* a pass has ended with the entry of the daily schedule b persisted and
\* already notified, the once schedule a deleted and nothing cleared
C35_Witness ==
    /\ op.name = "checkMissedAlarms"
    /\ op.ok
    /\ ScheduleIds(schedules) = { <<"b">> }
    /\ clearedLog = <<>>
    /\ notified = <<>>
    /\ PendingIds(missedData) = { <<"b">> }

\* the keys a full pass at the current instant persists when it reads the
\* array scheds
PassKeys(scheds) ==
    KeysOf(ActiveMissed(UniqueMissed(MissedAccumulator(scheds, 1, now)),
                        pruneClearedMissedAlarms(clearedLog, now)))

\* C36: the pending entries a pass produces depend only on the persisted
\* run history, the recurrence rule and now: they are the entries the pass
\* produces when registerAlarms has run just before it.
C36_PassIgnoresRegistration ==
    [][FullPass =>
          KeysOf(missedData'.list)
              = PassKeys(RegisterResult(schedules, now).schedules)]_vars

\* the timer name registerAlarms gives a timer of the schedule id: the id,
\* or the id with a weekday suffix
NamedFor(name, id) ==
    \/ name = id
    \/ \E d \in 1..7 : name = id \o <<"-", Digits[d + 1]>>

C38_AllNotifiedAfterPass ==
    [][FullPass =>
          \A e \in Range(missedData'.list) : e.hasBeenNotified]_vars

\* a pass has persisted two entries, both flagged: one it has just
\* notified and one carried from an earlier pass
C38_Witness ==
    /\ op.name = "checkMissedAlarms"
    /\ op.ok
    /\ Len(missedData.list) = 2
    /\ Len(notified) = 1
    /\ \A e \in Range(missedData.list) : e.hasBeenNotified

\* the schedule of the id is stored and recurring
Recurring(id) ==
    \E i \in 1..Len(schedules) :
        schedules[i].id = id /\ schedules[i].repeat # "once"

\* C39: an occurrence of a recurring schedule that was executed by its
\* live timer fire is never reported as a MissedOccurrence by a later
\* reconciliation pass.
C39_FiredNeverReported ==
    (op.name = "checkMissedAlarms" /\ op.ok) =>
        \A e \in Range(missedData.list) :
            ~(/\ Recurring(e.scheduleId)
              /\ NamedFor(calcTime, e.scheduleId)
              /\ e.missedRunTime = calcFrom)

\* the array was stored and no invocation of registerAlarms is in flight
Quiescent ==
    /\ op.name \notin {"init", "tick"}
    /\ IdleSlots(registering) = DOMAIN registering

\* C40: the loop store-changed event, registerAlarms, write-back of
\* calculatedWhen, store-changed event reaches quiescence: with no further
\* edit and the clock standing still, the array an invocation writes back
\* is one registerAlarms writes nothing to, and after finitely many
\* invocations none is in flight and none is triggered any more.
C40_Quiescence ==
    /\ [][/\ (op'.name = "registerAlarms.create" /\ schedules' # schedules) =>
                 \A j \in 1..Len(schedules') :
                     ProcessSchedule(schedules'[j], now).calculatedWhen
                         = schedules'[j].calculatedWhen
          /\ Quiescent => Quiescent']_vars
    /\ (op.name = "storeChanged") ~> Quiescent

\* the loop has come to rest after a write-back: the once schedule carries
\* the calculatedWhen registerAlarms computed, the daily one none
C40_Witness ==
    /\ Quiescent
    /\ now = 541
    /\ op.name = "registerAlarms.create"
    /\ schedules[1].repeat = "once"
    /\ schedules[1].calculatedWhen = MinutesPerDay + 540
    /\ schedules[2].calculatedWhen = Null
    /\ TimersOf(<<"a">>) # {}

====
